---- MODULE Spec2Model ----
(***************************************************************************)
(* Model of the multi-platform synchronization subsystem of myEcomm:       *)
(* order import, product sync, inventory sync, the oversell correction     *)
(* pass, the Bull job queues and their processors, and the webhook route.  *)
(***************************************************************************)
EXTENDS Integers, Sequences, FiniteSets, TLC

VARIABLES
    orders,         \* prisma.order rows (items nested in the row)
    nextOrderId,    \* next primary key handed out by prisma.order.create
    connections,    \* prisma.platformConnection rows
    products,       \* prisma.product rows
    nextProductId,  \* next primary key handed out by prisma.product.create
    listings,       \* prisma.platformListing rows
    inventoryLog,   \* prisma.inventoryLog rows, in the order they were appended
    queues,         \* the four Bull queues: waiting, delayed, completed, failed jobs
    nextJobId,      \* next job id handed out by Queue.add
    syncJobs,       \* prisma.syncJob rows, in the order they were created
    webhooks,       \* prisma.webhook rows
    env,            \* process.env: the configured secrets
    KEY,            \* the encryption key the running process derived at start-up
    running,        \* the executions in progress, each with the rows it has read so far
    scheduledJobs,  \* SyncCoordinator.scheduledJobs: the state of each cron task
    last            \* the response of the operation that ran last

orderVars == <<orders, nextOrderId>>
catalogVars == <<products, nextProductId, listings>>

queueVars == <<queues, nextJobId, syncJobs, webhooks>>

vars == <<orders, nextOrderId, connections, products, nextProductId, listings,
          inventoryLog, queues, nextJobId, syncJobs, webhooks, env, KEY, running, scheduledJobs, last>>

\* ------------------------------------------------------------------ bounds
MaxOrders == 2          \* order rows the store may hold
MaxFetch == 1           \* orders one adapter fetch returns
MaxPlatformsPerCall == 1 \* platforms named in one order import request
MaxQty == 1             \* largest canonical quantity a product is given
MaxProducts == 2        \* product rows the store may hold
MaxStock == 3           \* largest canonical quantity in the oversell runs
MaxListed == 4          \* largest listing quantity in the oversell runs
MaxJobs == 2            \* jobs added to the queues in one run
MaxConnections == 2     \* PlatformConnection rows in the credential store
MaxLog == 2             \* InventoryLog rows appended in one run
MaxRunning == 2         \* executions in progress at the same time
MaxBulk == 1            \* bulk updates in progress at the same time
MaxBatch == 2           \* orders one fetch hands to an overlapping import

\* ------------------------------------------------------------- value sets
\* the cron tasks initializeScheduledSyncs registers
TaskNames == {"orders", "inventory", "products", "cleanup"}

\* scheduledJobs as the constructor leaves it: every task scheduled
ScheduledTasks == [name \in TaskNames |-> "scheduled"]

Users == {"u1", "u2"}

\* the tenant on whose behalf the inventory routes and the overlapping order
\* imports run; the other tenant only edits its own product
EngineTenants == {"u1"}

OrderPlatforms == {"EBAY", "SHOPIFY"}
OrderIds == {"o1", "o2"}
None == "none"
QueueNames == {"product-sync", "order-sync", "inventory-sync", "webhook-processing"}

\* what a platform reports for the mutable part of an order
OrderMeta ==
    { [status |-> "PENDING", total |-> 10, shippingAddress |-> "addr1"],
      [status |-> "SHIPPED", total |-> 25, shippingAddress |-> "addr2"] }

\* what a platform reports for the line items of an order
ItemLists ==
    { << [sku |-> "s1", quantity |-> 1, price |-> 10] >>,
      << [sku |-> "s1", quantity |-> 1, price |-> 10],
         [sku |-> "s2", quantity |-> 3, price |-> 5] >> }

\* the normalized order objects the fetch*Orders mappers hand to saveOrder
OrderData ==
    { [platformOrderId |-> o, status |-> m.status, total |-> m.total,
       shippingAddress |-> m.shippingAddress, items |-> it] :
        o \in OrderIds, m \in OrderMeta, it \in ItemLists }

RECURSIVE SeqsUpTo(_, _)
SeqsUpTo(S, n) ==
    IF n = 0 THEN { <<>> }
    ELSE LET shorter == SeqsUpTo(S, n - 1)
         IN  shorter \cup { Append(s, x) : s \in { t \in shorter : Len(t) = n - 1 }, x \in S }

Range(s) == { s[i] : i \in 1..Len(s) }

\* --------------------------------------------------- connection-manager.ts
\* prisma.platformConnection.findUnique({ where: { userId_platform } }): the
\* row of (userId, platform), whatever its status; the empty set stands for
\* null. Where every stored token decrypts, getPlatformConnection finds a
\* connection exactly when this lookup does.
findConnection(conns, userId, platform) ==
    { c \in conns : c.userId = userId /\ c.platform = platform }

\* ---------------------------------------------------------- encryption
\* the values process.env.ENCRYPTION_KEY can hold: unset, 64 hex characters,
\* and the 32-character value the README gives
EncryptionKeySettings == {"", "hex64", "your-32-character-encryption-key"}

\* crypto.randomBytes(32) of the fallback: a fresh key per process
RandomKeys == {"k-rand1", "k-rand2"}

\* Buffer.from(ENCRYPTION_KEY.slice(0, 64), "hex"): decoding stops at the first
\* character that is not a hex digit, so the README value decodes to no bytes
KeyBytes(encryptionKey) ==
    IF encryptionKey = "hex64" THEN "k-env" ELSE "k-empty"

\* the KEY constant a process computes when the module is loaded
DerivedKeys(e) ==
    IF e.ENCRYPTION_KEY = "" THEN RandomKeys ELSE { KeyBytes(e.ENCRYPTION_KEY) }

\* createCipheriv / createDecipheriv accept a 32-byte key for aes-256-gcm
KeyLength(key) == IF key = "k-empty" THEN 0 ELSE 32
ValidKey(key) == KeyLength(key) = 32

\* crypto.randomBytes(16): the nonces an encrypt call can draw
IVs == {"iv1", "iv2"}

\* byte strings as terms: a nonce, the GCM authentication tag and the GCM
\* ciphertext of a text under a key and a nonce, and the bytes of a text
IvBytes(iv) == <<"iv", iv, "", "">>
Tag(key, iv, text) == <<"tag", key, iv, text>>
Enc(key, iv, text) == <<"enc", key, iv, text>>
TextBytes(text) == <<"txt", text, "", "">>

\* one ":"-separated part of a stored string: the bytes its hex digits decode
\* to and whether the digits are written in upper case (hex decoding ignores
\* the case)
Part(bytes) == [bytes |-> bytes, upper |-> FALSE]

\* a stored string that is a plain token: one part, the text itself
PlainString(text) == << Part(TextBytes(text)) >>

\* encrypt: `${iv}:${authTag}:${encrypted}` as the list of its parts
encrypt(key, iv, text) ==
    [thrown |-> ~ValidKey(key),
     data |-> << Part(IvBytes(iv)), Part(Tag(key, iv, text)), Part(Enc(key, iv, text)) >>]

\* decrypt with the tag never verified: whatever body decodes is returned
decryptIgnoringTag(key, encryptedData) ==
    IF Len(encryptedData) # 3 \/ ~ValidKey(key)
    THEN [thrown |-> TRUE, text |-> ""]
    ELSE LET iv == encryptedData[1].bytes
             encrypted == encryptedData[3].bytes
             ok == /\ iv[1] = "iv"
                   /\ encrypted[1] = "enc"
                   /\ encrypted[2] = key
                   /\ encrypted[3] = iv[2]
         IN  IF ok THEN [thrown |-> FALSE, text |-> encrypted[4]]
             ELSE [thrown |-> TRUE, text |-> ""]

\* decrypt: split(":") must give three parts; decipher.final() throws unless
\* the tag is the one of this key, nonce and body; every failure is rethrown
\* as "Failed to decrypt data"
decrypt(key, encryptedData) ==
    IF Len(encryptedData) # 3 \/ ~ValidKey(key)
    THEN [thrown |-> TRUE, text |-> ""]
    ELSE LET iv == encryptedData[1].bytes
             authTag == encryptedData[2].bytes
             encrypted == encryptedData[3].bytes
             ok == /\ iv[1] = "iv"
                   /\ encrypted[1] = "enc"
                   /\ encrypted[2] = key
                   /\ encrypted[3] = iv[2]
                   /\ authTag = Tag(key, iv[2], encrypted[4])
         IN  IF ok THEN [thrown |-> FALSE, text |-> encrypted[4]]
             ELSE [thrown |-> TRUE, text |-> ""]

\* ------------------------------------------------ connection-manager.ts
\* a null column
Null == <<>>

\* storePlatformConnection with the refresh token written as it was passed
storePlatformConnectionRefreshInClear(conns, key, ivAccess, ivRefresh, userId, platform, tokens, shop) ==
    LET access == encrypt(key, ivAccess, tokens.accessToken)
        row == [userId |-> userId, platform |-> platform,
                accessToken |-> access.data,
                refreshToken |-> IF tokens.refreshToken # None
                                 THEN PlainString(tokens.refreshToken) ELSE Null,
                expiresAt |-> tokens.expiresAt, scope |-> tokens.scope,
                status |-> "ACTIVE", shop |-> shop, lastError |-> None]
    IN  IF access.thrown
        THEN [thrown |-> TRUE, conns |-> conns]
        ELSE [thrown |-> FALSE,
              conns |-> (conns \ findConnection(conns, userId, platform)) \cup {row}]

\* storePlatformConnection: both tokens are encrypted, each with a nonce of
\* its own, then the row of (userId, platform) is upserted with status ACTIVE;
\* a throw of encrypt leaves the table as it is
storePlatformConnection(conns, key, ivAccess, ivRefresh, userId, platform, tokens, shop) ==
    LET access == encrypt(key, ivAccess, tokens.accessToken)
        refresh == IF tokens.refreshToken # None
                   THEN encrypt(key, ivRefresh, tokens.refreshToken)
                   ELSE [thrown |-> FALSE, data |-> Null]
        row == [userId |-> userId, platform |-> platform,
                accessToken |-> access.data, refreshToken |-> refresh.data,
                expiresAt |-> tokens.expiresAt, scope |-> tokens.scope,
                status |-> "ACTIVE", shop |-> shop, lastError |-> None]
    IN  IF access.thrown \/ refresh.thrown
        THEN [thrown |-> TRUE, conns |-> conns]
        ELSE [thrown |-> FALSE,
              conns |-> (conns \ findConnection(conns, userId, platform)) \cup {row}]

\* getPlatformConnection: null when there is no row, otherwise the row with
\* both tokens decrypted; a throw of decrypt is not caught
getPlatformConnection(conns, key, userId, platform) ==
    LET found == findConnection(conns, userId, platform)
    IN  IF found = {}
        THEN [found |-> FALSE, thrown |-> FALSE, accessToken |-> None, refreshToken |-> None]
        ELSE LET connection == CHOOSE c \in found : TRUE
                 access == decrypt(key, connection.accessToken)
                 refresh == IF connection.refreshToken # Null
                            THEN decrypt(key, connection.refreshToken)
                            ELSE [thrown |-> FALSE, text |-> None]
             IN  IF access.thrown \/ refresh.thrown
                 THEN [found |-> TRUE, thrown |-> TRUE,
                       accessToken |-> None, refreshToken |-> None]
                 ELSE [found |-> TRUE, thrown |-> FALSE,
                       accessToken |-> access.text, refreshToken |-> refresh.text]

\* getAllPlatformConnections with only the access token masked
getAllPlatformConnectionsAccessOnly(conns, userId) ==
    { [userId |-> c.userId, platform |-> c.platform, accessToken |-> PlainString("***"),
       refreshToken |-> c.refreshToken, expiresAt |-> c.expiresAt, scope |-> c.scope,
       status |-> c.status, shop |-> c.shop, lastError |-> c.lastError] :
      c \in { r \in conns : r.userId = userId } }

\* getAllPlatformConnections: the rows of the tenant with both token fields
\* replaced by "***"
getAllPlatformConnections(conns, userId) ==
    { [userId |-> c.userId, platform |-> c.platform, accessToken |-> PlainString("***"),
       refreshToken |-> PlainString("***"), expiresAt |-> c.expiresAt, scope |-> c.scope,
       status |-> c.status, shop |-> c.shop, lastError |-> c.lastError] :
      c \in { r \in conns : r.userId = userId } }

\* disconnectPlatform by deleting the row
disconnectPlatformDeleting(conns, userId, platform) ==
    LET found == findConnection(conns, userId, platform)
    IN  IF found = {} THEN [thrown |-> TRUE, conns |-> conns]
        ELSE [thrown |-> FALSE, conns |-> conns \ found]

\* disconnectPlatform: prisma update of the one row, which throws when the
\* row does not exist
disconnectPlatform(conns, userId, platform) ==
    LET found == findConnection(conns, userId, platform)
    IN  IF found = {} THEN [thrown |-> TRUE, conns |-> conns]
        ELSE [thrown |-> FALSE,
              conns |-> (conns \ found) \cup
                        { [c EXCEPT !.status = "DISCONNECTED"] : c \in found }]

\* updateConnectionStatus recording the error text and leaving the status
updateConnectionStatusKeepingStatus(conns, userId, platform, status, error) ==
    LET found == findConnection(conns, userId, platform)
    IN  IF found = {} THEN [thrown |-> TRUE, conns |-> conns]
        ELSE [thrown |-> FALSE,
              conns |-> (conns \ found) \cup
                        { IF error # None
                          THEN [c EXCEPT !.shop = None, !.lastError = error]
                          ELSE c : c \in found }]

\* updateConnectionStatus: the status is set; with an error text the metadata
\* is replaced by { lastError }, without one it is left alone
updateConnectionStatus(conns, userId, platform, status, error) ==
    LET found == findConnection(conns, userId, platform)
    IN  IF found = {} THEN [thrown |-> TRUE, conns |-> conns]
        ELSE [thrown |-> FALSE,
              conns |-> (conns \ found) \cup
                        { IF error # None
                          THEN [c EXCEPT !.status = status, !.shop = None,
                                         !.lastError = error]
                          ELSE [c EXCEPT !.status = status] : c \in found }]

\* ----------------------------------------------------------- order import
\* prisma.order.findUnique({ where: { userId_platformOrderId } })
FindOrder(ords, userId, platformOrderId) ==
    { o \in ords : o.userId = userId /\ o.platformOrderId = platformOrderId }

\* saveOrder with the update branch also rewriting the line items
saveOrderReplacingItems(ords, nid, userId, platform, orderData) ==
    LET existing == FindOrder(ords, userId, orderData.platformOrderId)
    IN  IF existing # {}
        THEN LET e == CHOOSE o \in existing : TRUE
             IN  [orders |-> (ords \ {e}) \cup
                        { [e EXCEPT !.status = orderData.status,
                                    !.total = orderData.total,
                                    !.shippingAddress = orderData.shippingAddress,
                                    !.items = orderData.items] },
                  nextId |-> nid]
        ELSE [orders |-> ords \cup
                    { [id |-> nid, userId |-> userId, platform |-> platform,
                       platformOrderId |-> orderData.platformOrderId,
                       status |-> orderData.status,
                       shippingAddress |-> orderData.shippingAddress,
                       total |-> orderData.total,
                       items |-> orderData.items] },
              nextId |-> nid + 1]

\* OrderSyncEngine.saveOrder
saveOrder(ords, nid, userId, platform, orderData) ==
    LET existing == FindOrder(ords, userId, orderData.platformOrderId)
    IN  IF existing # {}
        THEN LET e == CHOOSE o \in existing : TRUE
             IN  [orders |-> (ords \ {e}) \cup
                        { [e EXCEPT !.status = orderData.status,
                                    !.total = orderData.total,
                                    !.shippingAddress = orderData.shippingAddress] },
                  nextId |-> nid]
        ELSE [orders |-> ords \cup
                    { [id |-> nid, userId |-> userId, platform |-> platform,
                       platformOrderId |-> orderData.platformOrderId,
                       status |-> orderData.status,
                       shippingAddress |-> orderData.shippingAddress,
                       total |-> orderData.total,
                       items |-> orderData.items] },
              nextId |-> nid + 1]

\* the save loop of OrderSyncEngine.importFromSinglePlatform
RECURSIVE saveOrders(_, _, _, _, _)
saveOrders(ords, nid, userId, platform, fetched) ==
    IF fetched = <<>> THEN [orders |-> ords, nextId |-> nid]
    ELSE LET r == saveOrder(ords, nid, userId, platform, Head(fetched))
         IN  saveOrders(r.orders, r.nextId, userId, platform, Tail(fetched))

\* OrderSyncEngine.importFromSinglePlatform; fetched is what the adapter
\* returned, with ok false when the adapter call rejected
importOrdersFromSinglePlatform(ords, nid, conns, userId, platform, fetched) ==
    IF findConnection(conns, userId, platform) = {}
    THEN [orders |-> ords, nextId |-> nid,
          result |-> [platform |-> platform, success |-> FALSE,
                      error |-> "Platform not connected"]]
    ELSE IF ~fetched.ok
    THEN [orders |-> ords, nextId |-> nid,
          result |-> [platform |-> platform, success |-> FALSE,
                      error |-> "adapter error"]]
    ELSE LET r == saveOrders(ords, nid, userId, platform, fetched.orders)
         IN  [orders |-> r.orders, nextId |-> r.nextId,
              result |-> [platform |-> platform, success |-> TRUE,
                          orderCount |-> Len(fetched.orders)]]

\* OrderSyncEngine.importOrders
RECURSIVE importOrders(_, _, _, _, _, _)
importOrders(ords, nid, conns, userId, platforms, fetches) ==
    IF platforms = <<>> THEN [orders |-> ords, nextId |-> nid, results |-> <<>>]
    ELSE LET r == importOrdersFromSinglePlatform(ords, nid, conns, userId,
                                                 Head(platforms), Head(fetches))
             rest == importOrders(r.orders, r.nextId, conns, userId,
                                  Tail(platforms), Tail(fetches))
         IN  [orders |-> rest.orders, nextId |-> rest.nextId,
              results |-> <<r.result>> \o rest.results]

FetchOutcomes ==
    { [ok |-> FALSE, orders |-> <<>>] } \cup
    { [ok |-> TRUE, orders |-> s] : s \in SeqsUpTo(OrderData, MaxFetch) }

PlatformLists ==
    { s \in SeqsUpTo(OrderPlatforms, MaxPlatformsPerCall) :
        Len(s) >= 1 /\ Cardinality(Range(s)) = Len(s) }

\* the (platform, platformOrderId) pairs an import handed to saveOrder
SavedKeys(conns, u, ps, fetches) ==
    UNION { { [platform |-> ps[i], platformOrderId |-> od.platformOrderId] :
                od \in Range(fetches[i].orders) } :
            i \in { k \in 1..Len(ps) : findConnection(conns, u, ps[k]) # {} } }

\* POST /orders/import (and the order-sync processor): importOrders for one tenant
ImportOrders(u, ps, fetches) ==
    LET r == importOrders(orders, nextOrderId, connections, u, ps, fetches)
    IN  /\ Cardinality(r.orders) <= MaxOrders
        /\ orders' = r.orders
        /\ nextOrderId' = r.nextId
        /\ last' = [op |-> "importOrders", userId |-> u,
                    saved |-> SavedKeys(connections, u, ps, fetches),
                    reimported |->
                        \E k \in SavedKeys(connections, u, ps, fetches) :
                            FindOrder(orders, u, k.platformOrderId) # {}]
        /\ UNCHANGED <<connections, env, KEY, running, scheduledJobs, catalogVars, inventoryLog, queueVars>>

\* POST /orders: create one order by hand
CreateOrder(u, p, od) ==
    /\ IF FindOrder(orders, u, od.platformOrderId) # {}
       THEN /\ last' = [op |-> "createOrder", userId |-> u, httpStatus |-> 400]
            /\ UNCHANGED <<orders, nextOrderId>>
       ELSE /\ Cardinality(orders) < MaxOrders
            /\ orders' = orders \cup
                    { [id |-> nextOrderId, userId |-> u, platform |-> p,
                       platformOrderId |-> od.platformOrderId,
                       status |-> od.status,
                       shippingAddress |-> od.shippingAddress,
                       total |-> od.total,
                       items |-> od.items] }
            /\ nextOrderId' = nextOrderId + 1
            /\ last' = [op |-> "createOrder", userId |-> u, httpStatus |-> 201]
    /\ UNCHANGED <<connections, env, KEY, running, scheduledJobs, catalogVars, inventoryLog, queueVars>>

\* process.env with every secret set
ConfiguredEnv ==
    [SHOPIFY_WEBHOOK_SECRET |-> "shopify-secret",
     EBAY_WEBHOOK_SECRET |-> "ebay-secret",
     AMAZON_WEBHOOK_SECRET |-> "amazon-secret",
     WOOCOMMERCE_WEBHOOK_SECRET |-> "woo-secret",
     ENCRYPTION_KEY |-> "hex64"]

\* the KEY of a process started with ConfiguredEnv
ConfiguredKey == KeyBytes(ConfiguredEnv.ENCRYPTION_KEY)

\* the queues as the module creates them, and no SyncJob or Webhook row
IdleQueues ==
    /\ queues = [q \in QueueNames |->
                    [waiting |-> <<>>, delayed |-> {}, completed |-> <<>>, failed |-> <<>>]]
    /\ nextJobId = 1
    /\ syncJobs = <<>>
    /\ webhooks = {}

\* the tokens the OAuth callbacks stored for the connections of InitConnections
InitTokens ==
    [accessToken |-> "at1", refreshToken |-> None, expiresAt |-> None, scope |-> None]

\* the connections the OAuth callbacks stored before the run: tenant u1 on
\* eBay, Etsy and Shopify (shop1), tenant u2 on Shopify (shop2)
InitConnections ==
    LET c1 == storePlatformConnection({}, ConfiguredKey, "iv1", "iv1",
                                      "u1", "EBAY", InitTokens, None).conns
        c2 == storePlatformConnection(c1, ConfiguredKey, "iv1", "iv1",
                                      "u1", "ETSY", InitTokens, None).conns
        c3 == storePlatformConnection(c2, ConfiguredKey, "iv1", "iv1",
                                      "u1", "SHOPIFY", InitTokens, "shop1").conns
    IN  storePlatformConnection(c3, ConfiguredKey, "iv1", "iv1",
                                "u2", "SHOPIFY", InitTokens, "shop2").conns

InitOrders ==
    /\ orders = {}
    /\ nextOrderId = 1
    /\ connections = InitConnections
    /\ products = {}
    /\ nextProductId = 1
    /\ listings = {}
    /\ inventoryLog = <<>>
    /\ IdleQueues
    /\ env = ConfiguredEnv
    /\ KEY = ConfiguredKey
    /\ running = {}
    /\ scheduledJobs = ScheduledTasks
    /\ last = [op |-> "init"]

NextOrders ==
    \/ \E u \in Users, ps \in PlatformLists :
         \E fetches \in [1..Len(ps) -> FetchOutcomes] : ImportOrders(u, ps, fetches)
    \/ \E u \in Users, p \in OrderPlatforms, od \in OrderData : CreateOrder(u, p, od)

SpecOrders == InitOrders /\ [][NextOrders]_vars

\* ------------------------------------------- order import, step by step
\* The executions of the order-sync workers overlap at every await of
\* saveOrder: the findUnique of one may run before the create of another.
\* running holds one record per execution in progress.

\* the platform the overlapping executions import from; on one platform the
\* key the lookup names and the key of the unique index select the same rows
ImportPlatform == "SHOPIFY"

\* the executions that can overlap: the order-sync processor and the
\* requests to POST /orders/import each run importOrders on their own
ImportWorkers == 1..MaxRunning

\* what the platform delivers for an order: the order as placed, or the
\* order once shipped with its second line item
ImportDeliveries ==
    { od \in OrderData :
        \/ od.status = "PENDING" /\ Len(od.items) = 1
        \/ od.status = "SHIPPED" /\ Len(od.items) = 2 }

\* what one fetch returns to an execution: one or two orders, no id twice
ImportBatches ==
    { s \in SeqsUpTo(ImportDeliveries, MaxBatch) :
        /\ Len(s) >= 1
        /\ \A i, j \in 1..Len(s) :
             s[i].platformOrderId = s[j].platformOrderId => i = j }

\* the unique index on Order: prisma.order.create rejects a second row
\* with the key of a stored one
UniqueViolation(ords, userId, platform, platformOrderId) ==
    \E o \in ords : /\ o.userId = userId
                    /\ o.platform = platform
                    /\ o.platformOrderId = platformOrderId

\* the save loop after saveOrder returned: importedCount++, next order
saveLoopSaved(e) ==
    [e EXCEPT !.todo = Tail(e.todo), !.phase = "check", !.existing = {},
              !.importedCount = e.importedCount + 1]

\* the save loop giving up the batch when saveOrder throws
saveLoopCatchAborting(e) ==
    [e EXCEPT !.todo = <<>>, !.phase = "check", !.existing = {}]

\* the catch of the save loop: log the failure, go on with the next order
saveLoopCatch(e) ==
    [e EXCEPT !.todo = Tail(e.todo), !.phase = "check", !.existing = {}]

\* importFromSinglePlatform up to the save loop: the connection is found
\* and the adapter returned batch
ImportOrdersStart(w, u, batch) ==
    /\ Cardinality(running) < MaxRunning
    /\ \A e \in running : e.worker # w
    /\ \A v \in 1..(w - 1) : \E e \in running : e.worker = v
    /\ findConnection(connections, u, ImportPlatform) # {}
    /\ running' = running \cup
            { [op |-> "importOrders", worker |-> w, userId |-> u,
               platform |-> ImportPlatform, batch |-> batch, todo |-> batch,
               phase |-> "check", existing |-> {}, importedCount |-> 0] }
    /\ UNCHANGED <<orders, nextOrderId, connections, env, KEY, scheduledJobs,
                   catalogVars, inventoryLog, queueVars, last>>

\* saveOrder up to its first await: the findUnique
SaveOrderCheck(e) ==
    /\ e \in running
    /\ e.op = "importOrders"
    /\ e.phase = "check"
    /\ running' = (running \ {e}) \cup
            { [e EXCEPT !.phase = "write",
                        !.existing = { o.id : o \in FindOrder(orders, e.userId,
                                                Head(e.todo).platformOrderId) }] }
    /\ UNCHANGED <<orders, nextOrderId, connections, env, KEY, scheduledJobs,
                   catalogVars, inventoryLog, queueVars, last>>

\* the rest of saveOrder and the loop around it: update the row found, or
\* create one; a create the unique index rejects lands in the loop's catch.
\* After the last order the execution returns its result.
SaveOrderWrite(e) ==
    /\ e \in running
    /\ e.op = "importOrders"
    /\ e.phase = "write"
    /\ LET orderData == Head(e.todo)
           threw == /\ e.existing = {}
                    /\ UniqueViolation(orders, e.userId, e.platform,
                                       orderData.platformOrderId)
           n == IF threw THEN saveLoopCatch(e) ELSE saveLoopSaved(e)
       IN  /\ IF e.existing # {}
              THEN /\ orders' =
                        { IF o.id \in e.existing
                          THEN [o EXCEPT !.status = orderData.status,
                                         !.total = orderData.total,
                                         !.shippingAddress = orderData.shippingAddress]
                          ELSE o : o \in orders }
                   /\ UNCHANGED nextOrderId
              ELSE IF threw
              THEN UNCHANGED <<orders, nextOrderId>>
              ELSE /\ Cardinality(orders) < MaxOrders
                   /\ orders' = orders \cup
                        { [id |-> nextOrderId, userId |-> e.userId,
                           platform |-> e.platform,
                           platformOrderId |-> orderData.platformOrderId,
                           status |-> orderData.status,
                           shippingAddress |-> orderData.shippingAddress,
                           total |-> orderData.total,
                           items |-> orderData.items] }
                   /\ nextOrderId' = nextOrderId + 1
           /\ IF n.todo = <<>>
              THEN /\ running' = running \ {e}
                   /\ last' = [op |-> "importOrdersDone",
                               userId |-> e.userId, platform |-> e.platform,
                               fetched |-> [i \in 1..Len(e.batch) |->
                                              e.batch[i].platformOrderId],
                               success |-> TRUE,
                               orderCount |-> n.importedCount]
              ELSE /\ running' = (running \ {e}) \cup {n}
                   /\ UNCHANGED last
    /\ UNCHANGED <<connections, env, KEY, scheduledJobs, catalogVars,
                   inventoryLog, queueVars>>

NextConcurrentImport ==
    \/ \E w \in ImportWorkers, u \in EngineTenants, batch \in ImportBatches :
         ImportOrdersStart(w, u, batch)
    \/ \E e \in running : SaveOrderCheck(e)
    \/ \E e \in running : SaveOrderWrite(e)

SpecConcurrentImport == InitOrders /\ [][NextConcurrentImport]_vars

\* ----------------------------------------------------------- product sync
SyncPlatforms == <<"EBAY", "ETSY", "SHOPIFY">>

\* the platform lists of a sync request: platforms in the order of
\* SyncPlatforms, each at most once
SyncPlatformLists ==
    { s \in SeqsUpTo(Range(SyncPlatforms), Len(SyncPlatforms)) :
        /\ Len(s) >= 1
        /\ \A i, j \in 1..Len(s) :
             i < j => \E a, b \in 1..Len(SyncPlatforms) :
                        a < b /\ SyncPlatforms[a] = s[i] /\ SyncPlatforms[b] = s[j] }

\* prisma.product.findUnique({ where: { id } }): no tenant in the key
FindProduct(prods, productId) == { p \in prods : p.id = productId }

ListingsOf(lsts, productId) == { l \in lsts : l.productId = productId }

\* product.platformListings.find(l => l.platform === platform)
FindListing(lsts, productId, platform) ==
    { l \in lsts : l.productId = productId /\ l.platform = platform }

\* the listing id the platform hands back from createProduct
CreatedListingId(platform) ==
    IF platform = "ETSY" THEN "etsy-listing" ELSE "shopify-product"

\* syncToEbay / syncToEtsy / syncToShopify: the id returned when the adapter
\* call succeeded
PlatformProductId(platform, product, existingListing) ==
    IF platform = "EBAY" THEN product.sku
    ELSE IF platform = "ETSY" /\ existingListing # {}
    THEN (CHOOSE l \in existingListing : TRUE).platformProductId
    ELSE CreatedListingId(platform)

\* syncToEbay / syncToEtsy / syncToShopify: the adapter call made for the
\* product, chosen by the existence of a PlatformListing row alone; eBay
\* addresses the listing by SKU, Etsy and Shopify by the stored id
adapterCall(platform, product, existingListing) ==
    IF existingListing # {}
    THEN [method |-> "updateProduct",
          id |-> IF platform = "EBAY" THEN product.sku
                 ELSE (CHOOSE l \in existingListing : TRUE).platformProductId]
    ELSE [method |-> "createProduct", id |-> None]

\* prisma.platformListing.upsert of the success path
UpsertSynced(lsts, product, platform, platformProductId) ==
    LET cur == FindListing(lsts, product.id, platform)
    IN  IF cur # {}
        THEN (lsts \ cur) \cup
             { [l EXCEPT !.platformProductId = platformProductId,
                         !.price = product.price,
                         !.quantity = product.quantity,
                         !.status = "active",
                         !.syncErrors = None] : l \in cur }
        ELSE lsts \cup
             { [productId |-> product.id, platform |-> platform,
                platformProductId |-> platformProductId,
                price |-> product.price, quantity |-> product.quantity,
                status |-> "active", syncErrors |-> None] }

\* prisma.platformListing.upsert of the catch block
UpsertError(lsts, product, platform, message) ==
    LET cur == FindListing(lsts, product.id, platform)
    IN  IF cur # {}
        THEN (lsts \ cur) \cup { [l EXCEPT !.syncErrors = message] : l \in cur }
        ELSE lsts \cup
             { [productId |-> product.id, platform |-> platform,
                platformProductId |-> "error",
                price |-> product.price, quantity |-> product.quantity,
                status |-> "error", syncErrors |-> message] }

\* ProductSyncEngine.syncToSinglePlatform together with the try/catch of
\* syncProduct around it; snapshot is product.platformListings as loaded by
\* syncProduct, adapterOk tells whether the platform accepted the call
syncToSinglePlatform(lsts, conns, userId, product, snapshot, platform, adapterOk) ==
    IF findConnection(conns, userId, platform) = {}
    THEN [listings |-> lsts,
          result |-> [platform |-> platform, success |-> FALSE,
                      error |-> "Platform not connected"]]
    ELSE LET existingListing == { l \in snapshot : l.platform = platform }
         IN  IF adapterOk
             THEN [listings |->
                       UpsertSynced(lsts, product, platform,
                           PlatformProductId(platform, product, existingListing)),
                   result |-> [platform |-> platform, success |-> TRUE,
                               error |-> None]]
             ELSE [listings |-> UpsertError(lsts, product, platform, "adapter error"),
                   result |-> [platform |-> platform, success |-> FALSE,
                               error |-> "adapter error"]]

\* the loop of syncProduct without the try/catch: the first failing platform
\* ends the batch
RECURSIVE syncProductLoopAborting(_, _, _, _, _, _, _)
syncProductLoopAborting(lsts, conns, userId, product, snapshot, platforms, adapterOks) ==
    IF platforms = <<>> THEN [listings |-> lsts, results |-> <<>>]
    ELSE LET r == syncToSinglePlatform(lsts, conns, userId, product, snapshot,
                                       Head(platforms), Head(adapterOks))
         IN  IF ~r.result.success
             THEN [listings |-> r.listings, results |-> <<r.result>>]
             ELSE LET rest == syncProductLoopAborting(r.listings, conns, userId, product,
                                     snapshot, Tail(platforms), Tail(adapterOks))
                  IN  [listings |-> rest.listings,
                       results |-> <<r.result>> \o rest.results]

\* the loop of ProductSyncEngine.syncProduct
RECURSIVE syncProductLoop(_, _, _, _, _, _, _)
syncProductLoop(lsts, conns, userId, product, snapshot, platforms, adapterOks) ==
    IF platforms = <<>> THEN [listings |-> lsts, results |-> <<>>]
    ELSE LET r == syncToSinglePlatform(lsts, conns, userId, product, snapshot,
                                       Head(platforms), Head(adapterOks))
             rest == syncProductLoop(r.listings, conns, userId, product, snapshot,
                                     Tail(platforms), Tail(adapterOks))
         IN  [listings |-> rest.listings, results |-> <<r.result>> \o rest.results]

\* ProductSyncEngine.syncProduct; thrown is TRUE when the product is missing
syncProduct(lsts, prods, conns, userId, productId, platforms, adapterOks) ==
    LET found == FindProduct(prods, productId)
    IN  IF found = {}
        THEN [listings |-> lsts, results |-> <<>>, thrown |-> TRUE]
        ELSE LET product == CHOOSE p \in found : TRUE
                 r == syncProductLoop(lsts, conns, userId, product,
                                      ListingsOf(lsts, productId), platforms, adapterOks)
             IN  [listings |-> r.listings, results |-> r.results, thrown |-> FALSE]

ProductIds == {1, 2}

\* what the platforms answer to the adapter calls of one request; a platform
\* the tenant has no connection to is never called, its entry is left TRUE
AdapterOutcomes(u, ps) ==
    { f \in [1..Len(ps) -> BOOLEAN] :
        \A i \in 1..Len(ps) :
            findConnection(connections, u, ps[i]) = {} => f[i] }

\* POST /products/{productId}/sync
SyncProduct(u, productId, ps, adapterOks) ==
    LET r == syncProduct(listings, products, connections, u, productId, ps, adapterOks)
    IN  /\ listings' = r.listings
        /\ last' = IF r.thrown
                   THEN [op |-> "syncProduct", userId |-> u, productId |-> productId,
                         httpStatus |-> 500]
                   ELSE [op |-> "syncProduct", userId |-> u, productId |-> productId,
                         platforms |-> ps, adapterOks |-> adapterOks,
                         results |-> r.results, httpStatus |-> 200]
        /\ UNCHANGED <<orderVars, connections, env, KEY, running, scheduledJobs, products, nextProductId, inventoryLog, queueVars>>

\* PUT /products/{productId} with a new quantity
UpdateProduct(u, productId, quantity) ==
    LET found == { p \in products : p.id = productId /\ p.userId = u }
    IN  /\ IF found = {}
           THEN /\ last' = [op |-> "updateProduct", userId |-> u, httpStatus |-> 404]
                /\ UNCHANGED products
           ELSE /\ products' = (products \ found) \cup
                        { [p EXCEPT !.quantity = quantity] : p \in found }
                /\ last' = [op |-> "updateProduct", userId |-> u, httpStatus |-> 200]
        /\ UNCHANGED <<orderVars, connections, env, KEY, running, scheduledJobs, nextProductId, listings, inventoryLog, queueVars>>

\* ---------------------------------------------------------------- catalog
Skus == {"s1", "s2"}
Prices == {10, 20}
ProductStatuses == {"DRAFT", "ACTIVE", "ARCHIVED"}

\* a findUnique by sku that only sees ACTIVE products
FindProductBySkuActiveOnly(prods, sku) ==
    { p \in prods : p.sku = sku /\ p.status = "ACTIVE" }

\* prisma.product.findUnique({ where: { sku } }): the SKU alone is the key
FindProductBySku(prods, sku) == { p \in prods : p.sku = sku }

\* POST /products
CreateProduct(u, data) ==
    /\ IF FindProductBySku(products, data.sku) # {}
       THEN /\ last' = [op |-> "createProduct", userId |-> u, sku |-> data.sku,
                        httpStatus |-> 400]
            /\ UNCHANGED <<products, nextProductId>>
       ELSE /\ Cardinality(products) < MaxProducts
            /\ products' = products \cup
                    { [id |-> nextProductId, userId |-> u, sku |-> data.sku,
                       price |-> data.price, quantity |-> data.quantity,
                       status |-> data.status] }
            /\ nextProductId' = nextProductId + 1
            /\ last' = [op |-> "createProduct", userId |-> u, sku |-> data.sku,
                        httpStatus |-> 201]
    /\ UNCHANGED <<orderVars, connections, env, KEY, running, scheduledJobs, listings, inventoryLog, queueVars>>

\* request bodies that pass productSchema
ProductInputs ==
    [sku : Skus, price : Prices, quantity : 0..MaxQty, status : ProductStatuses]

InitCatalog ==
    /\ orders = {}
    /\ nextOrderId = 1
    /\ connections = InitConnections
    /\ products = {}
    /\ nextProductId = 1
    /\ listings = {}
    /\ inventoryLog = <<>>
    /\ IdleQueues
    /\ env = ConfiguredEnv
    /\ KEY = ConfiguredKey
    /\ running = {}
    /\ scheduledJobs = ScheduledTasks
    /\ last = [op |-> "init"]

NextCatalog ==
    \/ \E u \in Users, data \in ProductInputs : CreateProduct(u, data)
    \/ \E u \in Users, productId \in ProductIds, q \in 0..MaxQty :
         UpdateProduct(u, productId, q)

SpecCatalog == InitCatalog /\ [][NextCatalog]_vars

\* sum of the quantities of a set of listings
RECURSIVE SumQuantity(_)
SumQuantity(ls) ==
    IF ls = {} THEN 0
    ELSE LET l == CHOOSE x \in ls : TRUE
         IN  l.quantity + SumQuantity(ls \ {l})

\* ---------------------------------------------------------- oversell guard
\* the quantity every listing of an oversold product is set to, rounded up
AdjustedQuantityRoundedUp(quantity, listingCount) ==
    (quantity + listingCount - 1) \div listingCount

\* Math.floor(product.quantity / product.platformListings.length)
AdjustedQuantity(quantity, listingCount) == quantity \div listingCount

\* DavidInventoryManager.preventOverselling: the listings after the pass of
\* one tenant over its ACTIVE products
preventOverselling(lsts, prods, userId) ==
    LET selected == { p \in prods : p.userId = userId /\ p.status = "ACTIVE" }
        oversold(p) == SumQuantity(ListingsOf(lsts, p.id)) > p.quantity
        adjust(l) ==
            IF \E p \in selected : p.id = l.productId /\ oversold(p)
            THEN LET p == CHOOSE x \in selected : x.id = l.productId
                 IN  [l EXCEPT !.quantity =
                        AdjustedQuantity(p.quantity,
                                         Cardinality(ListingsOf(lsts, p.id)))]
            ELSE l
    IN  { adjust(l) : l \in lsts }

\* the inventory agent's oversell pass for one tenant
PreventOverselling(u) ==
    /\ listings' = preventOverselling(listings, products, u)
    /\ last' = [op |-> "preventOverselling", userId |-> u,
                adjusted |-> listings' # listings]
    /\ UNCHANGED <<orderVars, connections, env, KEY, running, scheduledJobs, products, nextProductId, inventoryLog, queueVars>>

\* a listing as product sync or inventory export left it at some earlier stock
ListingAt(productId, platform, quantity) ==
    [productId |-> productId, platform |-> platform,
     platformProductId |-> IF platform = "EBAY" THEN "s1" ELSE CreatedListingId(platform),
     price |-> 10, quantity |-> quantity, status |-> "active", syncErrors |-> None]

\* one product of tenant u1, in any status and at any stock, listed on some
\* platforms at quantities pushed while its stock was different
InitOversell ==
    /\ orders = {}
    /\ nextOrderId = 1
    /\ connections = InitConnections
    /\ \E st \in ProductStatuses, q \in 0..MaxStock :
         products = { [id |-> 1, userId |-> "u1", sku |-> "s1", price |-> 10,
                       quantity |-> q, status |-> st] }
    /\ nextProductId = 2
    /\ \E listed \in (SUBSET Range(SyncPlatforms)) \ {{}} :
         \E qty \in [listed -> 0..MaxListed] :
            listings = { ListingAt(1, pl, qty[pl]) : pl \in listed }
    /\ inventoryLog = <<>>
    /\ IdleQueues
    /\ env = ConfiguredEnv
    /\ KEY = ConfiguredKey
    /\ running = {}
    /\ scheduledJobs = ScheduledTasks
    /\ last = [op |-> "init"]

NextOversell ==
    \/ \E u \in Users : PreventOverselling(u)
    \/ \E u \in Users, productId \in ProductIds, q \in 0..MaxQty :
         UpdateProduct(u, productId, q)

SpecOversell == InitOversell /\ [][NextOversell]_vars

InitProductSync ==
    /\ orders = {}
    /\ nextOrderId = 1
    /\ connections = InitConnections
    /\ products = { [id |-> 1, userId |-> "u1", sku |-> "s1", price |-> 10,
                     quantity |-> 1, status |-> "ACTIVE"] }
    /\ nextProductId = 2
    /\ listings = {}
    /\ inventoryLog = <<>>
    /\ IdleQueues
    /\ env = ConfiguredEnv
    /\ KEY = ConfiguredKey
    /\ running = {}
    /\ scheduledJobs = ScheduledTasks
    /\ last = [op |-> "init"]

NextProductSync ==
    \/ \E u \in Users, productId \in ProductIds, ps \in SyncPlatformLists :
         \E adapterOks \in AdapterOutcomes(u, ps) : SyncProduct(u, productId, ps, adapterOks)
    \/ \E u \in Users, productId \in ProductIds, q \in 0..MaxQty :
         UpdateProduct(u, productId, q)

SpecProductSync == InitProductSync /\ [][NextProductSync]_vars

\* -------------------------------------------------------- inventory sync
\* InventorySyncEngine.updatePlatformInventory with the try/catch of its caller
updatePlatformInventory(lsts, prods, conns, userId, platform, sku, quantity, adapterOk) ==
    IF findConnection(conns, userId, platform) = {}
    THEN [listings |-> lsts,
          result |-> [platform |-> platform, success |-> FALSE,
                      error |-> "Platform not connected"]]
    ELSE IF ~adapterOk
    THEN [listings |-> lsts,
          result |-> [platform |-> platform, success |-> FALSE,
                      error |-> "adapter error"]]
    ELSE LET found == FindProductBySku(prods, sku)
             hit == { l \in lsts : \E p \in found :
                                      l.productId = p.id /\ l.platform = platform }
         IN  [listings |-> (lsts \ hit) \cup { [l EXCEPT !.quantity = quantity] : l \in hit },
              result |-> [platform |-> platform, success |-> TRUE, error |-> None]]

\* the loop of InventorySyncEngine.syncInventoryToPlatforms
RECURSIVE exportLoop(_, _, _, _, _, _, _)
exportLoop(lsts, prods, conns, userId, product, platforms, adapterOks) ==
    IF platforms = <<>> THEN [listings |-> lsts, results |-> <<>>]
    ELSE LET r == updatePlatformInventory(lsts, prods, conns, userId, Head(platforms),
                                          product.sku, product.quantity, Head(adapterOks))
             rest == exportLoop(r.listings, prods, conns, userId, product,
                                Tail(platforms), Tail(adapterOks))
         IN  [listings |-> rest.listings, results |-> <<r.result>> \o rest.results]

\* InventorySyncEngine.syncInventoryToPlatforms
syncInventoryToPlatforms(lsts, prods, conns, userId, productId, platforms, adapterOks) ==
    LET found == FindProduct(prods, productId)
    IN  IF found = {}
        THEN [listings |-> lsts, results |-> <<>>, thrown |-> TRUE]
        ELSE LET r == exportLoop(lsts, prods, conns, userId, CHOOSE p \in found : TRUE,
                                 platforms, adapterOks)
             IN  [listings |-> r.listings, results |-> r.results, thrown |-> FALSE]

\* the update loop of InventorySyncEngine.importFromSinglePlatform
RECURSIVE importItems(_, _, _, _)
importItems(prods, log, platform, items) ==
    IF items = <<>> THEN [products |-> prods, log |-> log]
    ELSE LET item == Head(items)
             found == FindProductBySku(prods, item.sku)
         IN  IF found = {}
             THEN importItems(prods, log, platform, Tail(items))
             ELSE LET product == CHOOSE p \in found : TRUE
                  IN  importItems(
                        (prods \ found) \cup
                            { [p EXCEPT !.quantity = item.quantity] : p \in found },
                        Append(log, [productId |-> product.id,
                                     oldQuantity |-> product.quantity,
                                     newQuantity |-> item.quantity,
                                     changeReason |-> <<"Synced from", platform>>]),
                        platform, Tail(items))

\* InventorySyncEngine.importFromSinglePlatform with the try/catch of importInventory
importInventoryFromSinglePlatform(prods, log, conns, userId, platform, fetched) ==
    IF findConnection(conns, userId, platform) = {}
    THEN [products |-> prods, log |-> log,
          result |-> [platform |-> platform, success |-> FALSE,
                      error |-> "Platform not connected"]]
    ELSE IF ~fetched.ok
    THEN [products |-> prods, log |-> log,
          result |-> [platform |-> platform, success |-> FALSE,
                      error |-> "adapter error"]]
    ELSE LET r == importItems(prods, log, platform, fetched.items)
         IN  [products |-> r.products, log |-> r.log,
              result |-> [platform |-> platform, success |-> TRUE, error |-> None]]

\* InventorySyncEngine.importInventory
RECURSIVE importInventory(_, _, _, _, _, _)
importInventory(prods, log, conns, userId, platforms, fetches) ==
    IF platforms = <<>> THEN [products |-> prods, log |-> log, results |-> <<>>]
    ELSE LET r == importInventoryFromSinglePlatform(prods, log, conns, userId,
                                                    Head(platforms), Head(fetches))
             rest == importInventory(r.products, r.log, conns, userId,
                                     Tail(platforms), Tail(fetches))
         IN  [products |-> rest.products, log |-> rest.log,
              results |-> <<r.result>> \o rest.results]

\* ------------------------------------------------------- inventory routes
\* InventorySyncEngine.bulkUpdateInventory for one update: one
\* updatePlatformInventory call per requested platform
bulkUpdateInventory(lsts, prods, conns, userId, update, adapterOks) ==
    exportLoop(lsts, prods, conns, userId,
               [sku |-> update.sku, quantity |-> update.quantity],
               update.platforms, adapterOks)

\* POST /inventory/sync
InventorySync(u, action, productId, ps, fetches, adapterOks) ==
    LET imp == importInventory(products, inventoryLog, connections, u, ps, fetches)
        exp == syncInventoryToPlatforms(listings, products, connections, u,
                                        productId, ps, adapterOks)
    IN  /\ Len(inventoryLog) < MaxLog
        /\ IF action = "import"
           THEN /\ products' = imp.products
                /\ inventoryLog' = imp.log
                /\ last' = [op |-> "inventorySync", userId |-> u, action |-> action,
                            httpStatus |-> 200]
                /\ UNCHANGED listings
           ELSE IF action = "export" /\ productId # 0
           THEN /\ listings' = exp.listings
                /\ last' = [op |-> "inventorySync", userId |-> u, action |-> action,
                            httpStatus |-> IF exp.thrown THEN 500 ELSE 200]
                /\ UNCHANGED <<products, inventoryLog>>
           ELSE /\ last' = [op |-> "inventorySync", userId |-> u, action |-> action,
                            httpStatus |-> 400]
                /\ UNCHANGED <<products, inventoryLog, listings>>
        /\ UNCHANGED <<orderVars, connections, env, KEY, running, scheduledJobs, nextProductId, queueVars>>

\* POST /inventory/bulk-update with one update, up to the answer of
\* prisma.product.findUnique({ where: { sku } }); other requests run between
\* this await and the writes that follow it
BulkUpdateRead(u, update) ==
    /\ Cardinality(running) < MaxBulk
    /\ Len(inventoryLog) + Cardinality(running) < MaxLog
    /\ running' = running \cup
         { [op |-> "bulkUpdate", userId |-> u, update |-> update,
            product |-> FindProductBySku(products, update.sku)] }
    /\ running' # running
    /\ UNCHANGED <<orderVars, connections, env, KEY, scheduledJobs, catalogVars, inventoryLog,
                   queueVars, last>>

\* the rest of POST /inventory/bulk-update: product.update, inventoryLog.create
\* with the quantity read before, then bulkUpdateInventory when the first
\* update names platforms
BulkUpdateWrite(r, adapterOks) ==
    /\ r \in running
    /\ r.op = "bulkUpdate"
    /\ LET update == r.update
           prods == IF r.product = {} THEN products
                    ELSE { IF p.sku = update.sku
                           THEN [p EXCEPT !.quantity = update.quantity] ELSE p :
                           p \in products }
           sync == bulkUpdateInventory(listings, prods, connections, r.userId,
                                       update, adapterOks)
       IN  /\ products' = prods
           /\ inventoryLog' =
                IF r.product = {} THEN inventoryLog
                ELSE Append(inventoryLog,
                            [productId |-> (CHOOSE p \in r.product : TRUE).id,
                             oldQuantity |-> (CHOOSE p \in r.product : TRUE).quantity,
                             newQuantity |-> update.quantity,
                             changeReason |-> <<"Bulk update", "">>])
           /\ listings' = IF update.platforms # <<>> THEN sync.listings ELSE listings
           /\ running' = running \ {r}
           /\ last' = [op |-> "bulkUpdate", userId |-> r.userId, httpStatus |-> 200]
    /\ UNCHANGED <<orderVars, connections, env, KEY, scheduledJobs, nextProductId, queueVars>>

\* the updates a tenant sends to POST /inventory/bulk-update
BulkUpdates ==
    { [sku |-> sku, quantity |-> q, platforms |-> ps] :
        sku \in Skus, q \in 0..MaxQty, ps \in {<<>>, <<"SHOPIFY">>} }

\* what a platform reports to fetchProducts during an import
StockFetches ==
    { [ok |-> FALSE, items |-> <<>>] } \cup
    { [ok |-> TRUE, items |-> << [sku |-> sku, quantity |-> q] >>] :
        sku \in Skus, q \in 0..MaxQty }

\* two tenants with one product each, the second tenant's listed on Shopify
InitInventory ==
    /\ orders = {}
    /\ nextOrderId = 1
    /\ connections = InitConnections
    /\ products = { [id |-> 1, userId |-> "u1", sku |-> "s1", price |-> 10,
                     quantity |-> 1, status |-> "ACTIVE"],
                    [id |-> 2, userId |-> "u2", sku |-> "s2", price |-> 10,
                     quantity |-> 1, status |-> "ACTIVE"] }
    /\ nextProductId = 3
    /\ listings = { ListingAt(2, "SHOPIFY", 1) }
    /\ inventoryLog = <<>>
    /\ IdleQueues
    /\ env = ConfiguredEnv
    /\ KEY = ConfiguredKey
    /\ running = {}
    /\ scheduledJobs = ScheduledTasks
    /\ last = [op |-> "init"]

NextInventory ==
    \/ \E u \in EngineTenants, action \in {"import", "export", "check"},
          productId \in {0} \cup ProductIds, fetch \in StockFetches,
          adapterOk \in BOOLEAN :
         /\ action = "import" => productId = 0 /\ adapterOk
         /\ action # "import" => fetch = [ok |-> FALSE, items |-> <<>>]
         /\ InventorySync(u, action, productId, <<"SHOPIFY">>, <<fetch>>, <<adapterOk>>)
    \/ \E u \in EngineTenants, update \in BulkUpdates : BulkUpdateRead(u, update)
    \/ \E r \in running, adapterOk \in BOOLEAN :
         /\ r.update.platforms = <<>> => adapterOk
         /\ BulkUpdateWrite(r, <<adapterOk>>)
    \/ \E u \in Users, productId \in ProductIds, q \in 0..MaxQty :
         UpdateProduct(u, productId, q)

SpecInventory == InitInventory /\ [][NextInventory]_vars

\* ------------------------------------------------------------- job queues
SyncAttempts == 3
WebhookAttempts == 5
SyncRemoveOnComplete == 100
SyncRemoveOnFail == 50
WebhookRemoveOnComplete == 200
WebhookRemoveOnFail == 100

\* every queue configured with the attempts of the sync queues
AttemptsSameForAll(queue) == SyncAttempts

\* defaultJobOptions.attempts
Attempts(queue) ==
    IF queue = "webhook-processing" THEN WebhookAttempts ELSE SyncAttempts

\* defaultJobOptions.removeOnComplete
RemoveOnComplete(queue) ==
    IF queue = "webhook-processing" THEN WebhookRemoveOnComplete ELSE SyncRemoveOnComplete

\* defaultJobOptions.removeOnFail
RemoveOnFail(queue) ==
    IF queue = "webhook-processing" THEN WebhookRemoveOnFail ELSE SyncRemoveOnFail

\* the newest n entries of a finished-job list
KeepLast(jobs, n) ==
    IF Len(jobs) <= n THEN jobs ELSE SubSeq(jobs, Len(jobs) - n + 1, Len(jobs))

AllSucceeded(results) == \A i \in 1..Len(results) : results[i].success

\* some result of the run reports a rejected adapter call
AdapterRejected(results) ==
    \E i \in 1..Len(results) :
        ~results[i].success /\ results[i].error = "adapter error"

\* Queue.add through queueProductSync, queueOrderSync, queueInventorySync and
\* queueWebhookProcessing
addJob(qs, jid, queue, data) ==
    [qs EXCEPT ![queue].waiting =
        Append(@, [id |-> jid, data |-> data, attemptsMade |-> 0,
                   runs |-> 0, adapterRejected |-> FALSE])]

\* what Bull does with the job at the head of the queue once its processor
\* returned (thrown false) or threw (thrown true)
settle(qs, queue, thrown, rejected) ==
    LET job == Head(qs[queue].waiting)
        ran == [job EXCEPT !.runs = @ + 1, !.adapterRejected = rejected]
        failedRun == [ran EXCEPT !.attemptsMade = @ + 1]
    IN  IF ~thrown
        THEN [qs EXCEPT ![queue].waiting = Tail(@),
                        ![queue].completed =
                            KeepLast(Append(@, ran), RemoveOnComplete(queue))]
        ELSE IF failedRun.attemptsMade < Attempts(queue)
        THEN [qs EXCEPT ![queue].waiting = Tail(@),
                        ![queue].delayed = @ \cup {failedRun}]
        ELSE [qs EXCEPT ![queue].waiting = Tail(@),
                        ![queue].failed =
                            KeepLast(Append(@, failedRun), RemoveOnFail(queue))]

SyncJobRow(userId, type, platforms, results) ==
    [userId |-> userId, type |-> type, platform |-> platforms[1],
     status |-> IF AllSucceeded(results) THEN "completed" ELSE "failed"]

\* the job data the callers put on the queues
ProductSyncJobs ==
    { [userId |-> "u1", productId |-> id, platforms |-> <<"EBAY", "SHOPIFY">>] :
        id \in ProductIds }
OrderSyncJobs == { [userId |-> "u1", platforms |-> <<"EBAY">>] }
\* productId 0 stands for a job without a productId
InventorySyncJobs ==
    { [userId |-> "u1", action |-> "import", platforms |-> <<"EBAY">>, productId |-> 0],
      [userId |-> "u1", action |-> "export", platforms |-> <<"EBAY">>, productId |-> 1],
      [userId |-> "u1", action |-> "export", platforms |-> <<"EBAY">>, productId |-> 0] }
WebhookJobs ==
    { [platform |-> "SHOPIFY", event |-> "orders/create", payload |-> "body1",
       userId |-> "u1"] }

JobData(queue) ==
    IF queue = "product-sync" THEN ProductSyncJobs
    ELSE IF queue = "order-sync" THEN OrderSyncJobs
    ELSE IF queue = "inventory-sync" THEN InventorySyncJobs
    ELSE WebhookJobs

\* what the platform answers to the fetches of a queued order or inventory job
QueuedOrderFetches ==
    { [ok |-> FALSE, orders |-> <<>>],
      [ok |-> TRUE, orders |-> <<>>],
      [ok |-> TRUE, orders |-> << [platformOrderId |-> "o1", status |-> "PENDING",
                                   total |-> 10, shippingAddress |-> "addr1",
                                   items |-> << [sku |-> "s1", quantity |-> 1,
                                                 price |-> 10] >>] >>] }
QueuedStockFetches ==
    { [ok |-> FALSE, items |-> <<>>], [ok |-> TRUE, items |-> <<>>] } \cup
    { [ok |-> TRUE, items |-> << [sku |-> "s1", quantity |-> q] >>] : q \in 0..MaxQty }

\* queueProductSync / queueOrderSync / queueInventorySync / queueWebhookProcessing
Enqueue(queue, data) ==
    /\ nextJobId <= MaxJobs
    /\ queues' = addJob(queues, nextJobId, queue, data)
    /\ nextJobId' = nextJobId + 1
    /\ last' = [op |-> "enqueue", queue |-> queue]
    /\ UNCHANGED <<orderVars, connections, env, KEY, running, scheduledJobs, catalogVars, inventoryLog, syncJobs, webhooks>>

\* the backoff delay of a retried job ran out
BackoffElapsed(queue, job) ==
    /\ job \in queues[queue].delayed
    /\ queues' = [queues EXCEPT ![queue].delayed = @ \ {job},
                                ![queue].waiting = Append(@, job)]
    /\ last' = [op |-> "backoffElapsed", queue |-> queue]
    /\ UNCHANGED <<orderVars, connections, env, KEY, running, scheduledJobs, catalogVars, inventoryLog,
                   nextJobId, syncJobs, webhooks>>

\* productSyncQueue.process; dbOk false: the database rejects the first query
ProcessProductSync(dbOk, adapterOks) ==
    /\ queues["product-sync"].waiting # <<>>
    /\ LET data == Head(queues["product-sync"].waiting).data
           r == syncProduct(listings, products, connections, data.userId,
                            data.productId, data.platforms, adapterOks)
           thrown == ~dbOk \/ r.thrown
       IN  /\ listings' = IF thrown THEN listings ELSE r.listings
           /\ syncJobs' = IF thrown THEN syncJobs
                          ELSE Append(syncJobs, SyncJobRow(data.userId, "PRODUCT_SYNC",
                                                           data.platforms, r.results))
           /\ queues' = settle(queues, "product-sync", thrown,
                               ~thrown /\ AdapterRejected(r.results))
           /\ last' = [op |-> "process", queue |-> "product-sync", thrown |-> thrown]
    /\ UNCHANGED <<orderVars, connections, env, KEY, running, scheduledJobs, products, nextProductId, inventoryLog,
                   nextJobId, webhooks>>

\* orderSyncQueue.process
ProcessOrderSync(dbOk, fetches) ==
    /\ queues["order-sync"].waiting # <<>>
    /\ LET data == Head(queues["order-sync"].waiting).data
           r == importOrders(orders, nextOrderId, connections, data.userId,
                             data.platforms, fetches)
           thrown == ~dbOk
       IN  /\ orders' = IF thrown THEN orders ELSE r.orders
           /\ nextOrderId' = IF thrown THEN nextOrderId ELSE r.nextId
           /\ syncJobs' = IF thrown THEN syncJobs
                          ELSE Append(syncJobs, SyncJobRow(data.userId, "ORDER_SYNC",
                                                           data.platforms, r.results))
           /\ queues' = settle(queues, "order-sync", thrown,
                               ~thrown /\ AdapterRejected(r.results))
           /\ last' = [op |-> "process", queue |-> "order-sync", thrown |-> thrown]
    /\ UNCHANGED <<connections, env, KEY, running, scheduledJobs, catalogVars, inventoryLog, nextJobId, webhooks>>

\* inventorySyncQueue.process
ProcessInventorySync(dbOk, fetches, adapterOks) ==
    /\ queues["inventory-sync"].waiting # <<>>
    /\ LET data == Head(queues["inventory-sync"].waiting).data
           imp == importInventory(products, inventoryLog, connections, data.userId,
                                  data.platforms, fetches)
           exp == syncInventoryToPlatforms(listings, products, connections, data.userId,
                                           data.productId, data.platforms, adapterOks)
           isImport == data.action = "import"
           thrown == \/ ~dbOk
                     \/ ~isImport /\ data.productId = 0
                     \/ ~isImport /\ exp.thrown
           results == IF isImport THEN imp.results ELSE exp.results
       IN  /\ products' = IF ~thrown /\ isImport THEN imp.products ELSE products
           /\ inventoryLog' = IF ~thrown /\ isImport THEN imp.log ELSE inventoryLog
           /\ listings' = IF ~thrown /\ ~isImport THEN exp.listings ELSE listings
           /\ syncJobs' = IF thrown THEN syncJobs
                          ELSE Append(syncJobs, SyncJobRow(data.userId, "INVENTORY_SYNC",
                                                           data.platforms, results))
           /\ queues' = settle(queues, "inventory-sync", thrown,
                               ~thrown /\ AdapterRejected(results))
           /\ last' = [op |-> "process", queue |-> "inventory-sync", thrown |-> thrown]
    /\ UNCHANGED <<orderVars, connections, env, KEY, running, scheduledJobs, nextProductId, nextJobId, webhooks>>

\* webhookQueue.process: the row is stored as processing and then marked
\* processed; the event switch changes nothing
ProcessWebhook(dbOk) ==
    /\ queues["webhook-processing"].waiting # <<>>
    /\ LET data == Head(queues["webhook-processing"].waiting).data
           thrown == ~dbOk
           key(w) == <<w.userId, w.platform, w.event, w.payload>>
           row == [userId |-> data.userId, platform |-> data.platform,
                   event |-> data.event, payload |-> data.payload,
                   status |-> "processed"]
       IN  /\ webhooks' = IF thrown THEN webhooks
                          ELSE { [w EXCEPT !.status =
                                     IF key(w) = key(row) THEN "processed" ELSE @] :
                                 w \in webhooks } \cup {row}
           /\ queues' = settle(queues, "webhook-processing", thrown, FALSE)
           /\ last' = [op |-> "process", queue |-> "webhook-processing",
                       thrown |-> thrown]
    /\ UNCHANGED <<orderVars, connections, env, KEY, running, scheduledJobs, catalogVars, inventoryLog, nextJobId, syncJobs>>

InitQueue ==
    /\ orders = {}
    /\ nextOrderId = 1
    /\ connections = InitConnections
    /\ products = { [id |-> 1, userId |-> "u1", sku |-> "s1", price |-> 10,
                     quantity |-> 1, status |-> "ACTIVE"] }
    /\ nextProductId = 2
    /\ listings = {}
    /\ inventoryLog = <<>>
    /\ IdleQueues
    /\ env = ConfiguredEnv
    /\ KEY = ConfiguredKey
    /\ running = {}
    /\ scheduledJobs = ScheduledTasks
    /\ last = [op |-> "init"]

NextQueue ==
    \/ \E queue \in QueueNames : \E data \in JobData(queue) : Enqueue(queue, data)
    \/ \E queue \in QueueNames : \E job \in queues[queue].delayed :
         BackoffElapsed(queue, job)
    \/ \E dbOk \in BOOLEAN, adapterOks \in [1..2 -> BOOLEAN] :
         ProcessProductSync(dbOk, adapterOks)
    \/ \E dbOk \in BOOLEAN, fetch \in QueuedOrderFetches :
         ProcessOrderSync(dbOk, <<fetch>>)
    \/ \E dbOk \in BOOLEAN, fetch \in QueuedStockFetches, adapterOk \in BOOLEAN :
         ProcessInventorySync(dbOk, <<fetch>>, <<adapterOk>>)
    \/ \E dbOk \in BOOLEAN : ProcessWebhook(dbOk)

SpecQueue == InitQueue /\ [][NextQueue]_vars

\* ------------------------------------------------------- webhook receiver
\* the route parameter, upper-cased; WISH stands for any platform the switch
\* does not know
WebhookPlatforms ==
    {"SHOPIFY", "EBAY", "AMAZON", "ETSY", "WOOCOMMERCE", "GOOGLE_SHOPPING", "WISH"}

\* the platforms whose case compares an HMAC of the raw body with a header
HmacPlatforms == {"SHOPIFY", "EBAY", "AMAZON", "WOOCOMMERCE"}

\* request bodies: JSON objects without and with the fields the route reads,
\* and the JSON literal null
Bodies == {"b-plain", "b-challenge", "b-event", "b-null"}

\* payload.challenge_code, payload.event_type, payload === null
HasChallengeCode(body) == body = "b-challenge"
HasEventType(body) == body = "b-event"
PayloadIsNull(body) == body = "b-null"

\* crypto.createHmac("sha256", secret).update(body).digest(encoding), as a term:
\* two digests are equal only for the same secret, body and encoding
Hmac(secret, body, encoding) == <<secret, body, encoding>>

NoHeader == <<>>

\* the secret each verification uses
WebhookSecret(e, platform) ==
    IF platform = "SHOPIFY" THEN e.SHOPIFY_WEBHOOK_SECRET
    ELSE IF platform = "EBAY" THEN e.EBAY_WEBHOOK_SECRET
    ELSE IF platform = "AMAZON" THEN e.AMAZON_WEBHOOK_SECRET
    ELSE e.WOOCOMMERCE_WEBHOOK_SECRET

\* the digest encoding each verification uses
DigestEncoding(platform) == IF platform = "EBAY" THEN "hex" ELSE "base64"

\* verifyShopifyWebhook
verifyShopifyWebhook(e, body, hmacHeader) ==
    Hmac(e.SHOPIFY_WEBHOOK_SECRET, body, "base64") = hmacHeader

\* verifyEbayWebhook
verifyEbayWebhook(e, body, signatureHeader) ==
    Hmac(e.EBAY_WEBHOOK_SECRET, body, "hex") = signatureHeader

\* verifyAmazonWebhook
verifyAmazonWebhook(e, body, signatureHeader) ==
    Hmac(e.AMAZON_WEBHOOK_SECRET, body, "base64") = signatureHeader

\* the verification switch of POST: "challenge" when the eBay handshake
\* answers, "throw" when reading the payload raises, "unsupported" for the
\* default case, otherwise the value of isValid
verifyWebhook(e, req) ==
    IF req.platform = "SHOPIFY"
    THEN IF req.signature # NoHeader
         THEN IF verifyShopifyWebhook(e, req.body, req.signature) THEN "valid" ELSE "invalid"
         ELSE "valid"
    ELSE IF req.platform = "EBAY"
    THEN IF PayloadIsNull(req.body) THEN "throw"
         ELSE IF HasChallengeCode(req.body) THEN "challenge"
         ELSE IF req.signature # NoHeader
         THEN IF verifyEbayWebhook(e, req.body, req.signature) THEN "valid" ELSE "invalid"
         ELSE "valid"
    ELSE IF req.platform = "AMAZON"
    THEN IF req.signature # NoHeader
         THEN IF verifyAmazonWebhook(e, req.body, req.signature) THEN "valid" ELSE "invalid"
         ELSE "valid"
    ELSE IF req.platform = "ETSY"
    THEN IF HasEventType(req.body) THEN "valid" ELSE "invalid"
    ELSE IF req.platform = "WOOCOMMERCE"
    THEN IF req.signature # NoHeader /\ e.WOOCOMMERCE_WEBHOOK_SECRET # ""
         THEN IF Hmac(e.WOOCOMMERCE_WEBHOOK_SECRET, req.body, "base64") = req.signature
              THEN "valid" ELSE "invalid"
         ELSE "valid"
    ELSE IF req.platform = "GOOGLE_SHOPPING"
    THEN IF PayloadIsNull(req.body) THEN "throw" ELSE "valid"
    ELSE "unsupported"

\* the second switch of POST: the tenant the event belongs to, "" when none
\* is found; only the Shopify case looks one up
resolveUserId(conns, req) ==
    IF req.platform = "SHOPIFY" /\ req.shop # None
    THEN LET found == { c \in conns : c.platform = "SHOPIFY" /\ c.shop = req.shop }
         IN  IF found = {} THEN "" ELSE (CHOOSE c \in found : TRUE).userId
    ELSE ""

\* the second switch of POST: the event type
eventOf(req) ==
    IF req.platform \in {"SHOPIFY", "WOOCOMMERCE"}
    THEN IF req.topic # None THEN req.topic ELSE "unknown"
    ELSE IF req.platform = "ETSY" THEN "etsy-event"
    ELSE "unknown"

\* reading the event type raises on a null payload
eventThrows(req) == req.platform = "AMAZON" /\ PayloadIsNull(req.body)

\* the signature header a sender attaches: none, the digest of this body under
\* the configured secret, a digest under another key, or the valid digest of
\* another body
SignatureKinds == {"absent", "valid", "wrongKey", "otherBody"}

SignatureHeader(e, platform, body, kind) ==
    IF kind = "absent" THEN NoHeader
    ELSE IF kind = "valid"
    THEN Hmac(WebhookSecret(e, platform), body, DigestEncoding(platform))
    ELSE IF kind = "wrongKey"
    THEN Hmac("guessed-secret", body, DigestEncoding(platform))
    ELSE Hmac(WebhookSecret(e, platform),
              IF body = "b-plain" THEN "b-text" ELSE "b-plain",
              DigestEncoding(platform))

\* the tenant whose connected account a request comes from: on Shopify the
\* owner of the shop the X-Shopify-Shop-Domain header names, on the other
\* platforms the owner of the account the payload names (account)
SenderOf(conns, platform, shop, account) ==
    IF platform = "SHOPIFY"
    THEN LET found == { c \in conns : c.platform = "SHOPIFY" /\ c.shop = shop }
         IN  IF shop = None \/ found = {} THEN None
             ELSE (CHOOSE c \in found : TRUE).userId
    ELSE account

\* POST /webhooks/{platform}
WebhookPost(platform, body, kind, shop, topic, account) ==
    LET req == [platform |-> platform, body |-> body,
                signature |-> SignatureHeader(env, platform, body, kind),
                shop |-> shop, topic |-> topic]
        verdict == verifyWebhook(env, req)
        userId == resolveUserId(connections, req)
        accepted == verdict = "valid" /\ ~eventThrows(req)
        enqueue == accepted /\ userId # ""
        httpStatus ==
            IF verdict = "unsupported" THEN 400
            ELSE IF verdict = "throw" THEN 500
            ELSE IF verdict = "challenge" THEN 200
            ELSE IF verdict = "invalid" THEN 401
            ELSE IF eventThrows(req) THEN 500
            ELSE 200
    IN  /\ account # None => findConnection(connections, account, platform) # {}
        /\ IF enqueue
           THEN /\ nextJobId <= MaxJobs
                /\ queues' = addJob(queues, nextJobId, "webhook-processing",
                                    [platform |-> platform, event |-> eventOf(req),
                                     payload |-> body, userId |-> userId])
                /\ nextJobId' = nextJobId + 1
           ELSE UNCHANGED <<queues, nextJobId>>
        /\ last' = [op |-> "webhook", platform |-> platform, signature |-> kind,
                    httpStatus |-> httpStatus, enqueued |-> enqueue,
                    verified |-> verdict = "valid",
                    sender |-> SenderOf(connections, platform, shop, account)]
        /\ UNCHANGED <<orderVars, connections, env, KEY, running, scheduledJobs, catalogVars, inventoryLog,
                       syncJobs, webhooks>>

\* the deployment has every webhook secret set, or lacks the WooCommerce one
InitWebhook ==
    /\ orders = {}
    /\ nextOrderId = 1
    /\ connections = InitConnections
    /\ products = {}
    /\ nextProductId = 1
    /\ listings = {}
    /\ inventoryLog = <<>>
    /\ IdleQueues
    /\ env \in { ConfiguredEnv,
                 [ConfiguredEnv EXCEPT !.WOOCOMMERCE_WEBHOOK_SECRET = ""] }
    /\ KEY = ConfiguredKey
    /\ running = {}
    /\ scheduledJobs = ScheduledTasks
    /\ last = [op |-> "init"]

NextWebhook ==
    \E platform \in WebhookPlatforms, body \in Bodies, kind \in SignatureKinds,
       shop \in {None, "shop1", "shop-unknown"}, topic \in {None, "orders/create"},
       account \in {None, "u1"} :
        /\ platform \notin HmacPlatforms => kind = "absent"
        /\ platform \in {"SHOPIFY", "WOOCOMMERCE"} => body = "b-plain"
        /\ platform # "SHOPIFY" => shop = None
        /\ platform \notin {"SHOPIFY", "WOOCOMMERCE"} => topic = None
        /\ platform = "SHOPIFY" => account = None
        /\ WebhookPost(platform, body, kind, shop, topic, account)

SpecWebhook == InitWebhook /\ [][NextWebhook]_vars

\* -------------------------------------------------------- credential store
\* the OAuthTokens the callbacks pass: Shopify's token without refresh token
\* and expiry, eBay's with both
TokenSets ==
    { [accessToken |-> "at1", refreshToken |-> None, expiresAt |-> None, scope |-> "read"],
      [accessToken |-> "at2", refreshToken |-> "rt2", expiresAt |-> "t1", scope |-> None] }

\* the OAuth callbacks: storePlatformConnection for the signed-in tenant
StorePlatformConnection(u, p, tokens, shop, ivAccess, ivRefresh) ==
    LET r == storePlatformConnection(connections, KEY, ivAccess, ivRefresh, u, p, tokens, shop)
    IN  /\ Cardinality(r.conns) <= MaxConnections
        /\ connections' = r.conns
        /\ last' = [op |-> "store", userId |-> u, platform |-> p, thrown |-> r.thrown,
                    accessToken |-> tokens.accessToken]
        /\ UNCHANGED <<orderVars, env, KEY, running, scheduledJobs, catalogVars, inventoryLog, queueVars>>

\* how a stored ciphertext reads back: as written, or with its nonce, tag or
\* body changed, a part missing or added, or its hex digits in upper case
Reads == {"intact", "iv", "tag", "body", "short", "long", "recased"}

ReadBack(data, read) ==
    IF read = "iv" THEN [data EXCEPT ![1].bytes = IvBytes("iv-other")]
    ELSE IF read = "tag" THEN [data EXCEPT ![2].bytes = Tag("k-other", "iv-other", "")]
    ELSE IF read = "body"
    THEN [data EXCEPT ![3].bytes = Enc(data[3].bytes[2], data[3].bytes[3], "forged")]
    ELSE IF read = "short" THEN SubSeq(data, 1, 2)
    ELSE IF read = "long" THEN Append(data, Part(TextBytes("")))
    ELSE IF read = "recased" THEN [i \in 1..Len(data) |-> [data[i] EXCEPT !.upper = TRUE]]
    ELSE data

\* the table with the access token of (u, p) reading back as `read`
StoredAs(conns, u, p, read) ==
    { IF c.userId = u /\ c.platform = p
      THEN [c EXCEPT !.accessToken = ReadBack(c.accessToken, read)] ELSE c : c \in conns }

\* a caller of getPlatformConnection
GetPlatformConnection(u, p, read) ==
    LET r == getPlatformConnection(StoredAs(connections, u, p, read), KEY, u, p)
    IN  /\ last' = [op |-> "get", userId |-> u, platform |-> p, read |-> read,
                    found |-> r.found, thrown |-> r.thrown,
                    accessToken |-> r.accessToken, refreshToken |-> r.refreshToken]
        /\ UNCHANGED <<orderVars, connections, env, KEY, running, scheduledJobs, catalogVars, inventoryLog, queueVars>>

\* GET /platforms/connections
ListConnections(u) ==
    /\ last' = [op |-> "list", userId |-> u,
                connections |-> getAllPlatformConnections(connections, u)]
    /\ UNCHANGED <<orderVars, connections, env, KEY, running, scheduledJobs, catalogVars, inventoryLog, queueVars>>

\* POST /platforms/disconnect
DisconnectPlatform(u, p) ==
    LET r == disconnectPlatform(connections, u, p)
    IN  /\ connections' = r.conns
        /\ last' = [op |-> "disconnect", userId |-> u, platform |-> p,
                    httpStatus |-> IF r.thrown THEN 500 ELSE 200]
        /\ UNCHANGED <<orderVars, env, KEY, running, scheduledJobs, catalogVars, inventoryLog, queueVars>>

\* a caller of updateConnectionStatus
UpdateConnectionStatus(u, p, status, error) ==
    LET r == updateConnectionStatus(connections, u, p, status, error)
    IN  /\ connections' = r.conns
        /\ last' = [op |-> "updateStatus", userId |-> u, platform |-> p,
                    status |-> status, thrown |-> r.thrown]
        /\ UNCHANGED <<orderVars, env, KEY, running, scheduledJobs, catalogVars, inventoryLog, queueVars>>

\* the process is started again, or another process (the queue worker) takes
\* over: the module computes its KEY anew
Restart ==
    /\ KEY' \in DerivedKeys(env) \ {KEY}
    /\ last' = [op |-> "restart"]
    /\ running' = {}
    /\ UNCHANGED <<orderVars, connections, env, scheduledJobs, catalogVars, inventoryLog, queueVars>>

\* InventorySyncEngine.importInventory([p]) for tenant u against the stored
\* credentials: a throw of getPlatformConnection is caught by importInventory
\* and becomes a failed result; with an access token past its expiresAt the
\* platform rejects the fetch; otherwise the platform reports no stock
ImportInventory(u, p, expired) ==
    LET found == findConnection(connections, u, p)
        connection == getPlatformConnection(connections, KEY, u, p)
        fetch == [ok |-> ~expired, items |-> <<>>]
        r == importInventory(products, inventoryLog, connections, u, <<p>>, <<fetch>>)
    IN  /\ found # {}
        /\ expired => \E c \in found : c.expiresAt # None
        /\ expired => ~connection.thrown
        /\ products' = IF connection.thrown THEN products ELSE r.products
        /\ inventoryLog' = IF connection.thrown THEN inventoryLog ELSE r.log
        /\ last' = [op |-> "importInventory", userId |-> u, platform |-> p,
                    credentialError |-> connection.thrown \/ expired,
                    success |-> ~connection.thrown /\ AllSucceeded(r.results)]
        /\ UNCHANGED <<orderVars, connections, env, KEY, running, scheduledJobs, nextProductId, listings, queueVars>>

\* an empty credential store; ENCRYPTION_KEY set to 64 hex digits, set as the
\* README shows, or not set
InitVault ==
    /\ orders = {}
    /\ nextOrderId = 1
    /\ connections = {}
    /\ products = {}
    /\ nextProductId = 1
    /\ listings = {}
    /\ inventoryLog = <<>>
    /\ IdleQueues
    /\ env \in { [ConfiguredEnv EXCEPT !.ENCRYPTION_KEY = k] : k \in EncryptionKeySettings }
    /\ KEY \in DerivedKeys(env)
    /\ running = {}
    /\ scheduledJobs = ScheduledTasks
    /\ last = [op |-> "init"]

\* the connections the tenants make: u1 on eBay and Shopify, u2 on Shopify
VaultKeys == { <<"u1", "EBAY">>, <<"u1", "SHOPIFY">>, <<"u2", "SHOPIFY">> }

\* the metadata the callback passes: the shop domain on Shopify
ShopOf(u, p) ==
    IF p # "SHOPIFY" THEN None ELSE IF u = "u1" THEN "shop1" ELSE "shop2"

NextVault ==
    \/ \E k \in VaultKeys, tokens \in TokenSets, ivAccess \in IVs, ivRefresh \in IVs :
         /\ ivRefresh # ivAccess
         /\ StorePlatformConnection(k[1], k[2], tokens, ShopOf(k[1], k[2]), ivAccess, ivRefresh)
    \/ \E k \in VaultKeys : GetPlatformConnection(k[1], k[2], "intact")
    \/ \E u \in Users : ListConnections(u)
    \/ \E k \in VaultKeys : DisconnectPlatform(k[1], k[2])
    \/ \E k \in VaultKeys : UpdateConnectionStatus(k[1], k[2], "ERROR", "token expired")
    \/ \E k \in VaultKeys, expired \in BOOLEAN : ImportInventory(k[1], k[2], expired)
    \/ Restart

SpecVault == InitVault /\ [][NextVault]_vars

\* the values of the ConnectionStatus enum
ConnectionStatuses == {"ACTIVE", "DISCONNECTED", "ERROR"}

\* the (status, error) pairs callers pass to updateConnectionStatus: an error
\* with its text, or any status without one
StatusUpdates ==
    { <<"ERROR", "token expired">> } \cup { <<st, None>> : st \in ConnectionStatuses }

\* the three operations that write a connection's status, in any order
NextLifecycle ==
    \/ \E k \in VaultKeys, tokens \in TokenSets, ivAccess \in IVs, ivRefresh \in IVs :
         /\ ivRefresh # ivAccess
         /\ StorePlatformConnection(k[1], k[2], tokens, ShopOf(k[1], k[2]), ivAccess, ivRefresh)
    \/ \E k \in VaultKeys : DisconnectPlatform(k[1], k[2])
    \/ \E k \in VaultKeys, su \in StatusUpdates :
         UpdateConnectionStatus(k[1], k[2], su[1], su[2])

SpecLifecycle == InitVault /\ [][NextLifecycle]_vars

\* one connection stored by a process that has since gone or is still running,
\* read back intact or changed
InitDecrypt ==
    /\ env \in { [ConfiguredEnv EXCEPT !.ENCRYPTION_KEY = k] : k \in EncryptionKeySettings }
    /\ KEY \in DerivedKeys(env)
    /\ running = {}
    /\ scheduledJobs = ScheduledTasks
    /\ \E k \in VaultKeys, tokens \in TokenSets, ivAccess \in IVs, ivRefresh \in IVs,
          key \in DerivedKeys(env) :
         /\ ivRefresh # ivAccess
         /\ connections = storePlatformConnection({}, key, ivAccess, ivRefresh, k[1], k[2],
                                                  tokens, ShopOf(k[1], k[2])).conns
    /\ orders = {}
    /\ nextOrderId = 1
    /\ products = {}
    /\ nextProductId = 1
    /\ listings = {}
    /\ inventoryLog = <<>>
    /\ IdleQueues
    /\ last = [op |-> "init"]

NextDecrypt ==
    \/ \E k \in VaultKeys, read \in Reads : GetPlatformConnection(k[1], k[2], read)
    \/ Restart

SpecDecrypt == InitDecrypt /\ [][NextDecrypt]_vars

\* ------------------------------------------------------- sync coordinator
\* prisma.user.findMany(): the tenants, in the order the query returns them
UserRows == <<"u1", "u2">>

\* a set of platforms as the list connections.map(c => c.platform) gives
RECURSIVE PlatformSeq(_)
PlatformSeq(S) ==
    IF S = {} THEN <<>>
    ELSE LET p == CHOOSE x \in S : TRUE IN <<p>> \o PlatformSeq(S \ {p})

\* the platforms of all connections of a tenant, whatever their status
ConnectedPlatforms(conns, userId) ==
    PlatformSeq({ c.platform : c \in { r \in conns : r.userId = userId } })

\* the ids of the tenant's ACTIVE products, in ascending order
RECURSIVE IdSeq(_)
IdSeq(S) ==
    IF S = {} THEN <<>>
    ELSE LET i == CHOOSE x \in S : \A y \in S : x <= y IN <<i>> \o IdSeq(S \ {i})

ActiveProductIds(prods, userId) ==
    IdSeq({ p.id : p \in { r \in prods : r.userId = userId /\ r.status = "ACTIVE" } })

\* the loop over products: one queueProductSync per product
RECURSIVE queueProductSyncs(_, _, _, _, _)
queueProductSyncs(qs, jid, userId, platforms, ids) ==
    IF ids = <<>> THEN [queues |-> qs, nextJobId |-> jid]
    ELSE queueProductSyncs(
             addJob(qs, jid, "product-sync",
                    [userId |-> userId, productId |-> Head(ids), platforms |-> platforms]),
             jid + 1, userId, platforms, Tail(ids))

\* what one sync type enqueues for one tenant with the given platforms
queueSyncType(qs, jid, prods, userId, platforms, syncType) ==
    IF syncType = "orders"
    THEN [queues |-> addJob(qs, jid, "order-sync",
                            [userId |-> userId, platforms |-> platforms]),
          nextJobId |-> jid + 1]
    ELSE IF syncType = "inventory"
    THEN [queues |-> addJob(qs, jid, "inventory-sync",
                            [userId |-> userId, action |-> "import",
                             platforms |-> platforms, productId |-> 0]),
          nextJobId |-> jid + 1]
    ELSE queueProductSyncs(qs, jid, userId, platforms, ActiveProductIds(prods, userId))

\* SyncCoordinator.triggerUserSync: throws when the tenant has no connection
triggerUserSync(qs, jid, conns, prods, userId, syncType) ==
    LET platforms == ConnectedPlatforms(conns, userId)
        r == queueSyncType(qs, jid, prods, userId, platforms, syncType)
    IN  IF platforms = <<>>
        THEN [thrown |-> TRUE, queues |-> qs, nextJobId |-> jid]
        ELSE [thrown |-> FALSE, queues |-> r.queues, nextJobId |-> r.nextJobId]

\* syncAllUsersOrders / syncAllUsersInventory / syncAllUsersProducts: the loop
\* over the users, skipping those without connections
RECURSIVE syncAllUsers(_, _, _, _, _, _)
syncAllUsers(qs, jid, conns, prods, users, syncType) ==
    IF users = <<>> THEN [queues |-> qs, nextJobId |-> jid]
    ELSE LET platforms == ConnectedPlatforms(conns, Head(users))
             r == IF platforms = <<>> THEN [queues |-> qs, nextJobId |-> jid]
                  ELSE queueSyncType(qs, jid, prods, Head(users), platforms, syncType)
         IN  syncAllUsers(r.queues, r.nextJobId, conns, prods, Tail(users), syncType)

\* the values a client sends as syncType
SyncTypes == {"orders", "inventory", "products", "everything"}

\* POST /sync/trigger
TriggerSync(u, syncType) ==
    LET valid == syncType \in {"orders", "inventory", "products"}
        r == triggerUserSync(queues, nextJobId, connections, products, u, syncType)
    IN  /\ (valid /\ ~r.thrown) => r.nextJobId - 1 <= MaxJobs
        /\ queues' = IF valid THEN r.queues ELSE queues
        /\ nextJobId' = IF valid THEN r.nextJobId ELSE nextJobId
        /\ last' = [op |-> "trigger", userId |-> u, syncType |-> syncType,
                    httpStatus |-> IF ~valid THEN 400
                                   ELSE IF r.thrown THEN 500 ELSE 200]
        /\ UNCHANGED <<orderVars, connections, env, KEY, running, scheduledJobs, catalogVars, inventoryLog,
                       syncJobs, webhooks>>

\* a cron tick of the order, inventory or product duty
ScheduledSync(syncType) ==
    LET r == syncAllUsers(queues, nextJobId, connections, products, UserRows, syncType)
    IN  /\ r.nextJobId - 1 <= MaxJobs
        /\ queues' = r.queues
        /\ nextJobId' = r.nextJobId
        /\ last' = [op |-> "tick", syncType |-> syncType]
        /\ UNCHANGED <<orderVars, connections, env, KEY, running, scheduledJobs, catalogVars, inventoryLog,
                       syncJobs, webhooks>>

\* tenant u1 connected to eBay with one ACTIVE product; tenant u2 connected to
\* Shopify or not connected at all
InitCoordinator ==
    /\ orders = {}
    /\ nextOrderId = 1
    /\ \E others \in { {}, { c \in InitConnections : c.userId = "u2" } } :
         connections = { c \in InitConnections : c.userId = "u1" /\ c.platform = "EBAY" }
                       \cup others
    /\ products = { [id |-> 1, userId |-> "u1", sku |-> "s1", price |-> 10,
                     quantity |-> 1, status |-> "ACTIVE"] }
    /\ nextProductId = 2
    /\ listings = {}
    /\ inventoryLog = <<>>
    /\ IdleQueues
    /\ env = ConfiguredEnv
    /\ KEY = ConfiguredKey
    /\ running = {}
    /\ scheduledJobs = ScheduledTasks
    /\ last = [op |-> "init"]

NextCoordinator ==
    \/ \E u \in Users, syncType \in SyncTypes : TriggerSync(u, syncType)
    \/ \E syncType \in {"orders", "inventory", "products"} : ScheduledSync(syncType)
    \/ \E queue \in QueueNames : \E job \in queues[queue].delayed :
         BackoffElapsed(queue, job)
    \/ \E dbOk \in BOOLEAN, adapterOk \in BOOLEAN :
         ProcessProductSync(dbOk, <<adapterOk>>)
    \/ \E dbOk \in BOOLEAN, fetch \in QueuedOrderFetches :
         ProcessOrderSync(dbOk, <<fetch>>)
    \/ \E dbOk \in BOOLEAN, fetch \in QueuedStockFetches :
         ProcessInventorySync(dbOk, <<fetch>>, <<TRUE>>)

SpecCoordinator == InitCoordinator /\ [][NextCoordinator]_vars

\* ------------------------------------------------ scheduled duties, stepwise
\* prisma.user.findMany({ include: { platformConnections: true, products:
\* { where: { status: "ACTIVE" } } } }): the rows a duty reads when it starts
UsersWithConnections(conns, prods) ==
    [i \in 1..Len(UserRows) |->
        [id |-> UserRows[i],
         platformConnections |-> { c \in conns : c.userId = UserRows[i] },
         products |-> ActiveProductIds(prods, UserRows[i])]]

\* a user row for which the loop body of the duty calls queue...Sync
Enqueues(name, user) ==
    /\ user.platformConnections # {}
    /\ name = "products" => user.products # <<>>

\* the cron task fires: the duty awaits prisma.user.findMany and holds the rows
DutyStart(name) ==
    /\ name \in {"orders", "inventory", "products"}
    /\ scheduledJobs[name] = "scheduled"
    /\ Cardinality(running) < MaxRunning
    /\ running' = running \cup
         { [op |-> "duty", name |-> name, enqueued |-> 0,
            todo |-> UsersWithConnections(connections, products)] }
    /\ running' # running
    /\ UNCHANGED <<orderVars, connections, env, KEY, scheduledJobs, catalogVars, inventoryLog,
                   queueVars, last>>

\* one round of the duty's loop over the users, up to the next await; after
\* the last user the duty logs that it is done
DutyStep(d) ==
    /\ d \in running
    /\ d.op = "duty"
    /\ LET user == Head(d.todo)
           platforms == PlatformSeq({ c.platform : c \in user.platformConnections })
           r == IF ~Enqueues(d.name, user)
                THEN [queues |-> queues, nextJobId |-> nextJobId]
                ELSE IF d.name = "products"
                THEN queueProductSyncs(queues, nextJobId, user.id, platforms,
                                       user.products)
                ELSE queueSyncType(queues, nextJobId, products, user.id, platforms,
                                   d.name)
           rest == [d EXCEPT !.todo = Tail(@),
                             !.enqueued = @ + (r.nextJobId - nextJobId)]
       IN  /\ r.nextJobId - 1 <= MaxJobs
           /\ queues' = r.queues
           /\ nextJobId' = r.nextJobId
           /\ running' = IF rest.todo = <<>> THEN running \ {d}
                         ELSE (running \ {d}) \cup {rest}
           /\ last' = IF rest.todo = <<>> THEN [op |-> "tick", syncType |-> d.name]
                      ELSE last
    /\ UNCHANGED <<orderVars, connections, env, KEY, scheduledJobs, catalogVars, inventoryLog,
                   syncJobs, webhooks>>

\* cleanupOldSyncJobs: deleteMany removes the rows older than thirty days,
\* the oldest k rows
CleanupOldSyncJobs(k) ==
    /\ scheduledJobs["cleanup"] = "scheduled"
    /\ k \in 0..Len(syncJobs)
    /\ syncJobs' = SubSeq(syncJobs, k + 1, Len(syncJobs))
    /\ last' = [op |-> "tick", syncType |-> "cleanup"]
    /\ UNCHANGED <<orderVars, connections, env, KEY, running, scheduledJobs, catalogVars,
                   inventoryLog, queues, nextJobId, webhooks>>

\* the process of the coordinator has not exited
Alive == \A name \in TaskNames : scheduledJobs[name] # "exited"

\* SyncCoordinator.stopAllJobs: job.stop() on every task
StopAllJobs ==
    /\ Alive
    /\ scheduledJobs' = [name \in TaskNames |-> "stopped"]
    /\ last' = [op |-> "stopAllJobs"]
    /\ UNCHANGED <<orderVars, connections, env, KEY, running, catalogVars, inventoryLog,
                   queueVars>>

\* SyncCoordinator.restartAllJobs: job.start() on every task
RestartAllJobs ==
    /\ Alive
    /\ scheduledJobs' = [name \in TaskNames |-> "scheduled"]
    /\ last' = [op |-> "restartAllJobs"]
    /\ UNCHANGED <<orderVars, connections, env, KEY, running, catalogVars, inventoryLog,
                   queueVars>>

\* process.on("SIGINT" / "SIGTERM"): stopAllJobs(), then process.exit(0) in
\* the same turn of the event loop; what was awaiting is gone with the process
Shutdown(signal) ==
    /\ Alive
    /\ scheduledJobs' = [name \in TaskNames |-> "exited"]
    /\ running' = {}
    /\ last' = [op |-> "shutdown", signal |-> signal]
    /\ UNCHANGED <<orderVars, connections, env, KEY, catalogVars, inventoryLog, queueVars>>

\* two tenants with one connection and one ACTIVE product each, one finished
\* sync job on record
InitScheduler ==
    /\ orders = {}
    /\ nextOrderId = 1
    /\ connections = { c \in InitConnections :
                          \/ c.userId = "u1" /\ c.platform = "EBAY"
                          \/ c.userId = "u2" /\ c.platform = "SHOPIFY" }
    /\ products = { [id |-> 1, userId |-> "u1", sku |-> "s1", price |-> 10,
                     quantity |-> 1, status |-> "ACTIVE"],
                    [id |-> 2, userId |-> "u2", sku |-> "s2", price |-> 10,
                     quantity |-> 1, status |-> "ACTIVE"] }
    /\ nextProductId = 3
    /\ listings = {}
    /\ inventoryLog = <<>>
    /\ queues = [q \in QueueNames |->
                    [waiting |-> <<>>, delayed |-> {}, completed |-> <<>>, failed |-> <<>>]]
    /\ nextJobId = 1
    /\ syncJobs = << [userId |-> "u1", type |-> "ORDER_SYNC", platform |-> "EBAY",
                      status |-> "completed"] >>
    /\ webhooks = {}
    /\ env = ConfiguredEnv
    /\ KEY = ConfiguredKey
    /\ running = {}
    /\ scheduledJobs = ScheduledTasks
    /\ last = [op |-> "init"]

NextScheduler ==
    \/ \E name \in TaskNames : DutyStart(name)
    \/ \E d \in running : DutyStep(d)
    \/ \E k \in 0..1 : CleanupOldSyncJobs(k)
    \/ StopAllJobs
    \/ RestartAllJobs
    \/ \E signal \in {"SIGINT", "SIGTERM"} : Shutdown(signal)
    \/ \E c \in connections : DisconnectPlatform(c.userId, c.platform)

SpecScheduler == InitScheduler /\ [][NextScheduler]_vars

\* the plaintext a stored token column was encrypted from
StoredText(column) == IF column = Null THEN None ELSE column[3].bytes[4]

\* C11: credential round trip: getPlatformConnection(tenant, platform) after
\* storePlatformConnection returns exactly the access token and the refresh
\* token that were stored, and null when no connection was stored.
CredentialRoundTrip ==
    [][ (last'.op = "get" /\ last'.read = "intact") =>
          LET found == findConnection(connections, last'.userId, last'.platform)
          IN  IF found = {}
              THEN ~last'.found /\ ~last'.thrown
              ELSE \A c \in found :
                     /\ last'.found /\ ~last'.thrown
                     /\ last'.accessToken = StoredText(c.accessToken)
                     /\ last'.refreshToken = StoredText(c.refreshToken)
      ]_vars

IsCiphertext(column) ==
    /\ Len(column) = 3
    /\ \A i \in 1..3 : ~column[i].upper
    /\ column[1].bytes[1] = "iv"
    /\ column[3].bytes[1] = "enc"
    /\ ValidKey(column[3].bytes[2])
    /\ column[3].bytes[3] = column[1].bytes[2]
    /\ column[2].bytes = Tag(column[3].bytes[2], column[3].bytes[3], column[3].bytes[4])

\* the token texts that reach the store
TokenTexts ==
    { t.accessToken : t \in TokenSets } \cup
    { t.refreshToken : t \in { x \in TokenSets : x.refreshToken # None } }

\* C13: in every reachable state of the store the accessToken of every
\* PlatformConnection row, and its refreshToken when there is one, is a
\* ciphertext produced by encrypt and never the plaintext token, whatever
\* store, disconnect and status-update operations ran.
CiphertextAtRest ==
    \A c \in connections :
        /\ IsCiphertext(c.accessToken)
        /\ c.refreshToken # Null => IsCiphertext(c.refreshToken)
        /\ \A t \in TokenTexts :
             c.accessToken # PlainString(t) /\ c.refreshToken # PlainString(t)

\* a connection with a refresh token went through a status update and another
\* one through a disconnect
TokensKeptThroughUpdates ==
    /\ \E c \in connections : c.status = "ERROR" /\ c.refreshToken # Null
    /\ \E c \in connections : c.status = "DISCONNECTED"

\* the table with every token column replaced by another ciphertext
WithOtherTokens(conns) ==
    { [c EXCEPT !.accessToken = encrypt("k-other", "iv-other", "other-token").data,
                !.refreshToken = encrypt("k-other", "iv-other", "other-refresh").data] :
      c \in conns }

\* C14: the listing of a tenant's connections does not depend on token values:
\* it is the same for a store that differs only in the stored tokens, both
\* token fields of every listed connection are "***", and exactly the
\* connections of the given tenant are listed.
ListingIndependentOfTokens ==
    [][ last'.op = "list" =>
          /\ last'.connections = getAllPlatformConnections(WithOtherTokens(connections),
                                                          last'.userId)
          /\ \A c \in last'.connections :
               /\ c.userId = last'.userId
               /\ c.accessToken = PlainString("***")
               /\ c.refreshToken = PlainString("***")
          /\ { c.platform : c \in last'.connections } =
             { c.platform : c \in { r \in connections : r.userId = last'.userId } }
      ]_vars

\* a tenant with a refresh token stored was listed while another tenant had a
\* connection too
ListedWithForeignConnection ==
    /\ last.op = "list"
    /\ last.connections # {}
    /\ \E c \in connections : c.userId = last.userId /\ c.refreshToken # Null
    /\ \E c \in connections : c.userId # last.userId

\* C15: disconnectPlatform never deletes a row: the row of (tenant, platform)
\* gets status DISCONNECTED and keeps its tokens, expiry, scope and metadata,
\* every other row is unchanged and the number of rows is the same; when there
\* is no such row nothing changes.
DisconnectKeepsRow ==
    [][ last'.op = "disconnect" =>
          LET found == findConnection(connections, last'.userId, last'.platform)
          IN  /\ Cardinality(connections') = Cardinality(connections)
              /\ connections \ found \subseteq connections'
              /\ \A c \in found : [c EXCEPT !.status = "DISCONNECTED"] \in connections'
              /\ (last'.httpStatus = 200) <=> (found # {})
      ]_vars

\* an ACTIVE connection with a refresh token was disconnected while another
\* connection was stored
DisconnectedAmongOthers ==
    /\ last.op = "disconnect" /\ last.httpStatus = 200
    /\ Cardinality(connections) = 2
    /\ \E c \in findConnection(connections, last.userId, last.platform) :
         c.status = "DISCONNECTED" /\ c.refreshToken # Null

\* C16: the manual sync trigger with a valid syncType always answers with the
\* acknowledgement (200, success), whatever the state of the tenant's
\* connections.
TriggerAlwaysAcknowledged ==
    (last.op = "trigger" /\ last.syncType \in {"orders", "inventory", "products"}) =>
        last.httpStatus = 200

\* the jobs of a queue that are pending: waiting or delayed for a retry
PendingJobs(queue) == Range(queues[queue].waiting) \cup queues[queue].delayed

\* C17: neither the scheduled duties nor triggerUserSync enqueue a job while an
\* identical job for the same key is still pending: no queue holds two pending
\* jobs with the same data.
NoDoubleEnqueue ==
    \A queue \in {"product-sync", "order-sync", "inventory-sync"} :
        \A j1, j2 \in PendingJobs(queue) : j1.data = j2.data => j1.id = j2.id

\* C18: a sync that finds the token of a connection expired or undecryptable
\* leads to a refresh attempt and, when that fails, to status ERROR: the
\* connection is not ACTIVE after the sync that hit the error.
CredentialErrorLeavesNoActive ==
    [][ (last'.op = "importInventory" /\ last'.credentialError) =>
          \A c \in findConnection(connections', last'.userId, last'.platform) :
              c.status # "ACTIVE"
      ]_vars

\* C19: a webhook request that passes verification but whose tenant cannot be
\* resolved is answered with 200 and enqueues nothing.
UnresolvedTenantAcknowledged ==
    [][ (last'.op = "webhook" /\ last'.verified /\ last'.sender = None) =>
          (last'.httpStatus = 200 /\ ~last'.enqueued /\ queues' = queues)
      ]_vars

\* the platforms the webhook route has a case for
SupportedWebhookPlatforms ==
    {"SHOPIFY", "EBAY", "AMAZON", "ETSY", "WOOCOMMERCE", "GOOGLE_SHOPPING"}

\* C20: on every supported platform a verified webhook whose platform-specific
\* identifier matches an existing PlatformConnection is resolved to that
\* connection's tenant: exactly one webhook-processing job for that tenant and
\* platform is enqueued and the answer is 200.
VerifiedWebhookEnqueued ==
    [][ ( /\ last'.op = "webhook"
          /\ last'.platform \in SupportedWebhookPlatforms
          /\ last'.verified
          /\ last'.sender # None ) =>
          /\ last'.httpStatus = 200
          /\ last'.enqueued
          /\ Len(queues'["webhook-processing"].waiting) =
             Len(queues["webhook-processing"].waiting) + 1
          /\ LET job == queues'["webhook-processing"].waiting[
                            Len(queues'["webhook-processing"].waiting)]
             IN  job.data.userId = last'.sender /\ job.data.platform = last'.platform
      ]_vars

\* C3: a webhook request whose signature is invalid for its platform is
\* answered with 401 and enqueues nothing.
InvalidSignatureRejected ==
    (last.op = "webhook" /\ last.signature \in {"wrongKey", "otherBody"}) =>
        (last.httpStatus = 401 /\ ~last.enqueued)

\* C4: on the HMAC platforms a request is enqueued only when its signature
\* header is present and equals the HMAC of the body under the configured
\* secret; any other request there ends unauthorized with no enqueue.
EnqueueOnlyVerified ==
    (last.op = "webhook" /\ last.platform \in HmacPlatforms /\ last.signature # "valid") =>
        (last.httpStatus = 401 /\ ~last.enqueued)

\* C5: a job whose processor throws on every attempt is run exactly the
\* configured number of times (3 on the sync queues, 5 on webhook-processing):
\* a job still waiting or delayed has failed fewer times than that, the run
\* that throws moves the job to delayed or, at the ceiling, to failed, and a
\* failed job stays in the failed list as it is, never run again, while the
\* list is shorter than removeOnFail.
RetryCeiling ==
    [][ \A q \in QueueNames :
          LET ceiling == IF q = "webhook-processing" THEN 5 ELSE 3
              ids(jobs) == { j.id : j \in jobs }
          IN  /\ \A j \in Range(queues'[q].failed) :
                   j.runs = ceiling /\ j.attemptsMade = ceiling
              /\ \A j \in Range(queues'[q].waiting) \cup queues'[q].delayed :
                   j.runs = j.attemptsMade /\ j.runs < ceiling
              /\ Len(queues[q].failed) < RemoveOnFail(q) =>
                   /\ Len(queues'[q].failed) >= Len(queues[q].failed)
                   /\ SubSeq(queues'[q].failed, 1, Len(queues[q].failed)) = queues[q].failed
              /\ (last'.op = "process" /\ last'.queue = q /\ last'.thrown) =>
                   LET job == Head(queues[q].waiting)
                   IN  IF job.attemptsMade + 1 < ceiling
                       THEN job.id \in ids(queues'[q].delayed)
                       ELSE job.id \in ids(Range(queues'[q].failed))
      ]_vars

\* a webhook job and a sync job both exhausted their attempts and sit in the
\* failed lists
JobsDeadLettered ==
    /\ \E j \in Range(queues["webhook-processing"].failed) : j.runs = 5
    /\ \E q \in QueueNames \ {"webhook-processing"} :
         \E j \in Range(queues[q].failed) : j.runs = 3

\* C6: a queued sync job in which an adapter call was rejected is retried, it
\* is never recorded by the queue as completed.
AdapterFailureRetried ==
    \A q \in {"product-sync", "order-sync", "inventory-sync"} :
        \A j \in Range(queues[q].completed) : ~j.adapterRejected

\* C7: in syncProduct over several platforms a failing adapter call does not
\* stop the batch: there is one result per requested platform, in order, with
\* success false exactly for the platforms that are not connected or whose
\* adapter call failed; every succeeding platform's listing carries the
\* returned platform id, the product's price and quantity, status active and
\* no error; every platform whose adapter call failed has a listing that
\* records the error.
PartialFailureIsolation ==
    [][ (last'.op = "syncProduct" /\ last'.httpStatus = 200) =>
          LET product == CHOOSE p \in products : p.id = last'.productId
              ps == last'.platforms
              connected(i) ==
                  findConnection(connections, last'.userId, ps[i]) # {}
          IN  /\ Len(last'.results) = Len(ps)
              /\ \A i \in 1..Len(ps) :
                   /\ last'.results[i].platform = ps[i]
                   /\ last'.results[i].success = (connected(i) /\ last'.adapterOks[i])
                   /\ (connected(i) /\ last'.adapterOks[i]) =>
                        \E l \in listings' :
                           /\ l.productId = product.id
                           /\ l.platform = ps[i]
                           /\ l.platformProductId =
                                PlatformProductId(ps[i], product,
                                    FindListing(listings, product.id, ps[i]))
                           /\ l.price = product.price
                           /\ l.quantity = product.quantity
                           /\ l.status = "active"
                           /\ l.syncErrors = None
                   /\ (connected(i) /\ ~last'.adapterOks[i]) =>
                        \E l \in listings' :
                           /\ l.productId = product.id
                           /\ l.platform = ps[i]
                           /\ l.syncErrors = "adapter error"
      ]_vars

\* a sync to three platforms in which the second adapter call failed and the
\* third platform was still synced
SyncedPastFailure ==
    /\ last.op = "syncProduct"
    /\ last.httpStatus = 200
    /\ Len(last.platforms) = 3
    /\ last.adapterOks = <<TRUE, FALSE, TRUE>>
    /\ last.results[3].success
    /\ \E l \in listings : l.platform = last.platforms[3] /\ l.status = "active"
    /\ \E l \in listings : l.platform = last.platforms[2] /\ l.syncErrors # None

\* C9: anti-oversell invariant: for every Product the quantities of its
\* PlatformListings sum to no more than the Product's canonical quantity.
AntiOversellInvariant ==
    \A p \in products : SumQuantity(ListingsOf(listings, p.id)) <= p.quantity

\* C10: POST /products with a SKU some Product already has answers with an
\* error and changes no Product row; with a new SKU it adds one row; no two
\* Products ever share a SKU.
SkuUniqueOnCreate ==
    [][ /\ last'.op = "createProduct" =>
             IF FindProductBySku(products, last'.sku) # {}
             THEN last'.httpStatus = 400 /\ products' = products
             ELSE /\ last'.httpStatus = 201
                  /\ products \subseteq products'
                  /\ Cardinality(products') = Cardinality(products) + 1
        /\ \A a, b \in products' : a.sku = b.sku => a = b
      ]_vars

\* a create request was refused because another tenant's product has the SKU
DuplicateSkuRefused ==
    /\ last.op = "createProduct"
    /\ last.httpStatus = 400
    /\ \E p \in products : p.sku = last.sku /\ p.userId # last.userId

OrderImportIdempotent ==
    [][ /\ \A o \in orders :
             \E n \in orders' :
                /\ n.id = o.id
                /\ n.userId = o.userId
                /\ n.platform = o.platform
                /\ n.platformOrderId = o.platformOrderId
                /\ n.items = o.items
        /\ \A a, b \in orders' :
             (a.userId = b.userId /\ a.platformOrderId = b.platformOrderId) => a = b
        /\ (last'.op = "importOrders" /\ last'.saved # {}) =>
             \A k \in last'.saved :
                Cardinality(FindOrder(orders', last'.userId, k.platformOrderId)) = 1
      ]_vars

\* an import met a row that an earlier import had created, and updated it
OrderReimported ==
    /\ last.op = "importOrders"
    /\ last.reimported
    /\ \E o \in orders : o.userId = last.userId /\ o.status = "SHIPPED"

\* C2: an Order is identified by (tenant, platform, platformOrderId): every
\* order an import saved has a row carrying its own platform afterwards, and
\* the import leaves the rows of every other (platform, platformOrderId) alone.
OrderKeyIncludesPlatform ==
    [][ last'.op = "importOrders" =>
          /\ \A k \in last'.saved :
               \E o \in orders' :
                  /\ o.userId = last'.userId
                  /\ o.platform = k.platform
                  /\ o.platformOrderId = k.platformOrderId
          /\ \A o \in orders :
               (~\E k \in last'.saved :
                    /\ o.userId = last'.userId
                    /\ o.platform = k.platform
                    /\ o.platformOrderId = k.platformOrderId)
               => o \in orders'
      ]_vars

\* the platform accepted a createProduct call for the listing at some time:
\* the catch block writes the row of a failed first attempt with the
\* placeholder id and status, and only the success path replaces them
CreatedOnPlatform(l) == l.status = "active"

\* C21: in every product sync, updateListing is called for a (product,
\* platform) pair only when a listing was successfully created on that
\* platform before; a pair whose first createListing call failed gets
\* createListing again on the next attempt.
UpdateOnlyAfterCreate ==
    [][ (last'.op = "syncProduct" /\ last'.httpStatus = 200) =>
          LET product == CHOOSE p \in products : p.id = last'.productId
              ps == last'.platforms
          IN  \A i \in 1..Len(ps) :
                 LET existingListing == FindListing(listings, product.id, ps[i])
                 IN  (/\ findConnection(connections, last'.userId, ps[i]) # {}
                      /\ adapterCall(ps[i], product, existingListing).method
                           = "updateProduct")
                     => \A l \in existingListing : CreatedOnPlatform(l)
      ]_vars

\* the InventoryLog rows of one product, oldest first
RECURSIVE LogOf(_, _)
LogOf(log, productId) ==
    IF log = <<>> THEN <<>>
    ELSE IF Head(log).productId = productId
    THEN <<Head(log)>> \o LogOf(Tail(log), productId)
    ELSE LogOf(Tail(log), productId)

\* C22: the InventoryLog of each Product is a complete, consistent audit
\* chain: no step changes or removes an existing entry, every step that
\* changes a Product's quantity appends entries for it, each entry of a
\* product starts at the quantity the entry before it ended at, and the
\* newest entry ends at the product's current quantity.
InventoryLogAuditChain ==
    [][ /\ Len(inventoryLog') >= Len(inventoryLog)
        /\ SubSeq(inventoryLog', 1, Len(inventoryLog)) = inventoryLog
        /\ \A p \in products : \A q \in products' :
             (q.id = p.id /\ q.quantity # p.quantity) =>
                LET before == LogOf(inventoryLog, p.id)
                    after == LogOf(inventoryLog', p.id)
                IN  /\ Len(after) > Len(before)
                    /\ after[Len(before) + 1].oldQuantity = p.quantity
                    /\ after[Len(after)].newQuantity = q.quantity
                    /\ \A i \in 1..(Len(after) - 1) :
                         after[i + 1].oldQuantity = after[i].newQuantity
      ]_vars

\* C23: tenant isolation of the sync engines: an inventory import, an
\* inventory export or a bulk inventory update run on behalf of one tenant
\* leaves every Product of another tenant, its PlatformListings and its
\* InventoryLog entries as they were.
TenantIsolation ==
    [][ last'.op \in {"inventorySync", "bulkUpdate"} =>
          \A p \in products :
             p.userId # last'.userId =>
                /\ p \in products'
                /\ ListingsOf(listings', p.id) = ListingsOf(listings, p.id)
                /\ LogOf(inventoryLog', p.id) = LogOf(inventoryLog, p.id)
      ]_vars

\* C24: the oversell pass only reduces: after the pass every
\* PlatformListing has a quantity less than or equal to the quantity it had
\* before, and the listings of a product whose listing sum does not exceed its
\* canonical quantity are unchanged.
OversellPassOnlyReduces ==
    [][ last'.op = "preventOverselling" =>
          /\ \A l \in listings :
               \E n \in listings' :
                  /\ n.productId = l.productId
                  /\ n.platform = l.platform
                  /\ n.quantity <= l.quantity
          /\ \A p \in products :
               SumQuantity(ListingsOf(listings, p.id)) <= p.quantity =>
                  ListingsOf(listings', p.id) = ListingsOf(listings, p.id)
      ]_vars

\* C25: updateConnectionStatus with a reason changes the status and records
\* the reason without removing anything stored: the row keeps its encrypted
\* tokens and its metadata (the Shopify shop domain), and a webhook of that
\* shop still resolves to the tenant.
MarkErrorKeepsStored ==
    [][ (last'.op = "updateStatus" /\ ~last'.thrown) =>
          \A c \in findConnection(connections, last'.userId, last'.platform) :
             /\ \E n \in findConnection(connections', c.userId, c.platform) :
                   /\ n.accessToken = c.accessToken
                   /\ n.refreshToken = c.refreshToken
                   /\ n.shop = c.shop
             /\ c.shop # None =>
                  resolveUserId(connections', [platform |-> c.platform, shop |-> c.shop])
                    = resolveUserId(connections, [platform |-> c.platform, shop |-> c.shop])
      ]_vars

\* the jobs a step added to a queue
NewJobs(queue) ==
    SubSeq(queues'[queue].waiting, Len(queues[queue].waiting) + 1,
           Len(queues'[queue].waiting))

\* C26: each round of the scheduled order-sync duty enqueues exactly one
\* order-sync job for a tenant that has at least one ACTIVE connection, with
\* only that tenant's ACTIVE platforms in its platform list, and none for a
\* tenant whose connections are all DISCONNECTED or ERROR.
OrderDutyActiveOnly ==
    [][ \A d \in running :
          (/\ d.op = "duty"
           /\ d.name = "orders"
           /\ d \notin running'
           /\ scheduledJobs' = scheduledJobs) =>
             LET user == Head(d.todo)
                 active == { c.platform :
                               c \in { x \in user.platformConnections :
                                          x.status = "ACTIVE" } }
                 new == NewJobs("order-sync")
             IN  IF active # {}
                 THEN /\ Len(new) = 1
                      /\ new[1].data.userId = user.id
                      /\ Range(new[1].data.platforms) \subseteq active
                 ELSE new = <<>>
      ]_vars

\* a duty that has enqueued for some tenants and still has tenants to enqueue for
HalfDone(d) ==
    /\ d.enqueued > 0
    /\ \E i \in 1..Len(d.todo) : Enqueues(d.name, d.todo[i])

\* C27: on SIGINT or SIGTERM all four tasks are stopped before the process
\* exits and no scheduled duty is left half done at exit; after stopAllJobs no
\* scheduled duty enqueues a job until restartAllJobs is called.
CleanShutdown ==
    [][ /\ (last'.op = "shutdown" /\ Alive) =>
             /\ \A name \in TaskNames : scheduledJobs'[name] # "scheduled"
             /\ \A d \in running : d.op = "duty" => ~HalfDone(d)
        /\ (/\ \A name \in TaskNames : scheduledJobs[name] = "stopped"
            /\ scheduledJobs' = scheduledJobs) =>
             \A d \in running :
                (d.op = "duty" /\ d \notin running') => nextJobId' = nextJobId
      ]_vars

\* C28: two order imports of one tenant that overlap on the same new remote
\* order leave exactly one Order row for it, holding the line items of one
\* of the deliveries; neither execution gives up its batch: when an
\* execution returns, every order of its batch has its row.
ConcurrentImportOneRow ==
    /\ \A o1, o2 \in orders :
         (/\ o1.userId = o2.userId
          /\ o1.platform = o2.platform
          /\ o1.platformOrderId = o2.platformOrderId) => o1 = o2
    /\ \A o \in orders : o.items \in ItemLists
    /\ last.op = "importOrdersDone" =>
         \A i \in 1..Len(last.fetched) :
            Cardinality({ o \in orders :
                            /\ o.userId = last.userId
                            /\ o.platform = last.platform
                            /\ o.platformOrderId = last.fetched[i] }) = 1

\* an execution returned after one create of its two-order batch was
\* rejected by the unique index, and both orders are stored
ConcurrentImportCollided ==
    /\ last.op = "importOrdersDone"
    /\ Len(last.fetched) = 2
    /\ last.orderCount = 1
    /\ running = {}
    /\ Cardinality({ o \in orders : o.userId = last.userId }) = 2

\* the statuses of the rows of (k[1], k[2])
StatusesOf(conns, k) == { c.status : c \in findConnection(conns, k[1], k[2]) }

\* the step is an operation on pair k that found its row (or, for a store,
\* did not throw)
Wrote(op, k, lst) ==
    /\ lst.op = op
    /\ lst.userId = k[1] /\ lst.platform = k[2]
    /\ IF op = "disconnect" THEN lst.httpStatus = 200 ELSE ~lst.thrown

\* what holds of the rows whatever wrote them: one row per pair, a known
\* status, a store leaves the row ACTIVE with the tokens passed, a disconnect
\* or status update of a pair without a row creates none and reports an error
LifecycleCommon ==
    /\ \A k \in VaultKeys :
         /\ Cardinality(findConnection(connections', k[1], k[2])) <= 1
         /\ StatusesOf(connections', k) \subseteq ConnectionStatuses
         /\ Wrote("store", k, last') =>
              /\ StatusesOf(connections', k) = {"ACTIVE"}
              /\ getPlatformConnection(connections', KEY, k[1], k[2]).accessToken
                   = last'.accessToken
              /\ Cardinality(connections') =
                   Cardinality(connections) +
                     (IF findConnection(connections, k[1], k[2]) = {} THEN 1 ELSE 0)
    /\ (last'.op \in {"disconnect", "updateStatus"}
          /\ findConnection(connections, last'.userId, last'.platform) = {}) =>
         /\ connections' = connections
         /\ IF last'.op = "disconnect" THEN last'.httpStatus = 500 ELSE last'.thrown

\* C29 (as stated): one row per (tenant, platform) with status ACTIVE,
\* DISCONNECTED or ERROR, which is ACTIVE exactly when the last operation
\* that changed its status was a store: a row becomes ACTIVE only by a store,
\* and stays ACTIVE until a disconnect or status update; a disconnect or
\* status update of a pair never stored creates no row and reports an error.
ActiveOnlyByStore ==
    [][ /\ LifecycleCommon
        /\ \A k \in VaultKeys :
             ("ACTIVE" \in StatusesOf(connections', k)
                /\ "ACTIVE" \notin StatusesOf(connections, k)) =>
                  Wrote("store", k, last')
      ]_vars

\* C29 (amended): one row per (tenant, platform) with status ACTIVE,
\* DISCONNECTED or ERROR; each operation leaves the status it writes -- a
\* store ACTIVE (with the new tokens), a disconnect DISCONNECTED, a status
\* update the status it was given -- so a row becomes ACTIVE by a store or by
\* a status update to ACTIVE, and by nothing else; a disconnect or status
\* update of a pair never stored creates no row and reports an error.
StatusIsLastWritten ==
    [][ /\ LifecycleCommon
        /\ \A k \in VaultKeys :
             /\ Wrote("disconnect", k, last') =>
                  StatusesOf(connections', k) = {"DISCONNECTED"}
             /\ Wrote("updateStatus", k, last') =>
                  StatusesOf(connections', k) = {last'.status}
             /\ ("ACTIVE" \in StatusesOf(connections', k)
                   /\ "ACTIVE" \notin StatusesOf(connections, k)) =>
                  \/ Wrote("store", k, last')
                  \/ Wrote("updateStatus", k, last') /\ last'.status = "ACTIVE"
      ]_vars

\* a row that was marked with an error is ACTIVE again after a status update,
\* and another row is DISCONNECTED
ReactivatedByStatusUpdate ==
    /\ last.op = "updateStatus" /\ last.status = "ACTIVE" /\ ~last.thrown
    /\ \E c \in findConnection(connections, last.userId, last.platform) :
         c.status = "ACTIVE" /\ c.lastError # None
    /\ \E c \in connections : c.status = "DISCONNECTED"

\* C30: a sync operation on a pair whose row is DISCONNECTED (disconnected
\* and not stored again since) neither decrypts the stored tokens nor calls
\* the platform's adapter: getPlatformConnection yields no connection and
\* the operation reports a failed result for the platform.
DisconnectedNotSynced ==
    [][ (/\ last'.op = "importInventory"
         /\ \E c \in findConnection(connections, last'.userId, last'.platform) :
              c.status = "DISCONNECTED") =>
          /\ ~getPlatformConnection(connections, KEY, last'.userId, last'.platform).found
          /\ ~last'.success
      ]_vars

====
